---- MODULE Spec2Model ----
(***************************************************************************)
(* go-torch: the raw pprof parser (pprof.ParseRaw) and the aggregation of  *)
(* its stack records into a stack.Profile.                                 *)
(*                                                                         *)
(* A Go string is modelled as a sequence of one-character strings, so that *)
(* strings.Split, strings.TrimSpace, strings.HasPrefix, the \s+ splitter   *)
(* and strconv.ParseInt are computed character by character, as the code   *)
(* computes them.                                                          *)
(***************************************************************************)
EXTENDS Integers, Sequences, FiniteSets, TLC

\* Bounds of the model.
MaxLines == 5        \* newline-terminated lines in one input buffer
MaxRecords == 3      \* stack records handed to the aggregation on its own
MaxNames == 3        \* counter names handed to NewProfile
MaxAdds == 2         \* calls of Add on one Sample
MaxSamples == 2      \* Samples of a Profile handed to ToFlameInput
MaxEdges == 4        \* edges of a generated call graph
MaxFairEdges == 3    \* edges of a generated call graph traversed under fairness
MaxPath == 2         \* edges of a path handed to pathAsString on its own
MaxArgs == 3         \* arguments handed to SelectSample

(***************************************************************************)
(* readState, the parser's position in the dump.                           *)
(***************************************************************************)
ignore == 0
samplesHeader == 1
samples == 2
locations == 3
mappings == 4

(***************************************************************************)
(* String helpers (package strings, strconv, regexp, fmt).                 *)
(***************************************************************************)
IsSpace(c) == c \in {" ", "\t", "\n", "\r"}

RECURSIVE TrimLeft(_)
TrimLeft(s) ==
  IF s = <<>> \/ ~IsSpace(Head(s)) THEN s ELSE TrimLeft(Tail(s))

RECURSIVE TrimRight(_)
TrimRight(s) ==
  IF s = <<>> \/ ~IsSpace(s[Len(s)]) THEN s
  ELSE TrimRight(SubSeq(s, 1, Len(s) - 1))

TrimSpace(s) == TrimRight(TrimLeft(s))

HasPrefix(s, prefix) ==
  Len(s) >= Len(prefix) /\ SubSeq(s, 1, Len(prefix)) = prefix

HasSuffix(s, suffix) ==
  Len(s) >= Len(suffix)
  /\ SubSeq(s, Len(s) - Len(suffix) + 1, Len(s)) = suffix

TrimSuffix(s, suffix) ==
  IF HasSuffix(s, suffix) THEN SubSeq(s, 1, Len(s) - Len(suffix)) ELSE s

Contains(s, sub) ==
  \E i \in 1..(Len(s) - Len(sub) + 1) : SubSeq(s, i, i + Len(sub) - 1) = sub

\* strings.Split(s, sep) for a one-character separator: always at least one
\* element, empty elements are kept.
RECURSIVE Split(_, _)
Split(s, sep) ==
  IF \A i \in 1..Len(s) : s[i] # sep THEN <<s>>
  ELSE LET i == CHOOSE j \in 1..Len(s) :
                  s[j] = sep /\ \A k \in 1..(j - 1) : s[k] # sep
       IN <<SubSeq(s, 1, i - 1)>> \o Split(SubSeq(s, i + 1, Len(s)), sep)

\* spaceSplitter.Split(t, -1) on a trimmed string: cut at every run of
\* whitespace; the empty string gives one empty element.
RECURSIVE SplitRuns(_)
SplitRuns(t) ==
  IF \A i \in 1..Len(t) : ~IsSpace(t[i]) THEN <<t>>
  ELSE LET i == CHOOSE j \in 1..Len(t) :
                  IsSpace(t[j]) /\ \A k \in 1..(j - 1) : ~IsSpace(t[k])
       IN <<SubSeq(t, 1, i - 1)>> \o SplitRuns(TrimLeft(SubSeq(t, i + 1, Len(t))))

splitBySpace(s) == SplitRuns(TrimSpace(s))

RECURSIVE Join(_, _)
Join(elems, sep) ==
  IF elems = <<>> THEN <<>>
  ELSE IF Len(elems) = 1 THEN elems[1]
  ELSE elems[1] \o sep \o Join(Tail(elems), sep)

DigitChars == <<"0", "1", "2", "3", "4", "5", "6", "7", "8", "9">>

IsDigit(c) == \E i \in 1..Len(DigitChars) : DigitChars[i] = c

DigitVal(c) == (CHOOSE i \in 1..Len(DigitChars) : DigitChars[i] = c) - 1

RECURSIVE DigitsValue(_)
DigitsValue(s) ==
  IF s = <<>> THEN 0
  ELSE DigitsValue(SubSeq(s, 1, Len(s) - 1)) * Len(DigitChars) + DigitVal(s[Len(s)])

\* strconv.ParseInt(s, 10, 64): an optional sign and at least one digit.
\* The tokens of the model are far shorter than 19 digits, so the range
\* error cannot arise.
ParseInt(s) ==
  LET signed == s # <<>> /\ Head(s) \in {"+", "-"}
      digits == IF signed THEN Tail(s) ELSE s
      ok     == digits # <<>> /\ \A i \in 1..Len(digits) : IsDigit(digits[i])
  IN IF ~ok THEN [ok |-> FALSE, v |-> 0]
     ELSE [ok |-> TRUE,
           v  |-> IF signed /\ Head(s) = "-" THEN 0 - DigitsValue(digits)
                  ELSE DigitsValue(digits)]

\* fmt's %v of an integer.
RECURSIVE FormatNat(_)
FormatNat(n) ==
  IF n < Len(DigitChars) THEN <<DigitChars[n + 1]>>
  ELSE FormatNat(n \div Len(DigitChars)) \o <<DigitChars[(n % Len(DigitChars)) + 1]>>

FormatInt(n) == IF n < 0 THEN <<"-">> \o FormatNat(0 - n) ELSE FormatNat(n)

(***************************************************************************)
(* Errors.  NoErr is Go's nil error; the others carry what the message     *)
(* prints.                                                                 *)
(***************************************************************************)
NoErr == [kind |-> "nil"]

ErrEnded(st) == [kind |-> "ended before locations", state |-> st]

ErrMalformedSample(l) == [kind |-> "malformed sample line", line |-> l]

ErrMalformedLocation(l) == [kind |-> "malformed location line", line |-> l]

\* The arity error with its two lengths exchanged.
ErrSampleCount_Swapped(n, k, l) ==
  [kind |-> "different sample count", count |-> k, names |-> n, line |-> l]

ErrSampleCount(n, k, l) ==
  [kind |-> "different sample count", count |-> n, names |-> k, line |-> l]

ErrParseInt(s) == [kind |-> "strconv.ParseInt", num |-> s]

ErrAdd(n, m) == [kind |-> "cannot add", values |-> n, sample |-> m]

errProfileMustHaveSamples == [kind |-> "no samples"]

errProfileEmptySampleNames == [kind |-> "empty sample names"]

\* setError without its guard: the last error is kept.
setError_KeepLast(cur, e) == e

\* rawParser.setError: only the first error is kept.
setError(cur, e) == IF cur # NoErr THEN cur ELSE e

(***************************************************************************)
(* Integer parsing with error recording.  A parser value p is the record   *)
(* of the rawParser fields.                                                *)
(***************************************************************************)
\* rawParser.parseInt: the value (0 on failure) and the error field after it.
parseInt(e, s) ==
  LET r == ParseInt(s)
  IN IF r.ok THEN [v |-> r.v, err |-> e]
     ELSE [v |-> 0, err |-> setError(e, ErrParseInt(s))]

\* rawParser.parseInts: every space-separated token through parseInt, left
\* to right.
RECURSIVE parseTokens(_, _)
parseTokens(e, toks) ==
  IF toks = <<>> THEN [vs |-> <<>>, err |-> e]
  ELSE LET first == parseInt(e, Head(toks))
           rest  == parseTokens(first.err, Tail(toks))
       IN [vs |-> <<first.v>> \o rest.vs, err |-> rest.err]

parseInts(e, s) == parseTokens(e, splitBySpace(s))

\* rawParser.parseFuncIDs: the same integers, as funcIDs.
parseFuncIDs(e, s) == parseInts(e, s)

\* rawParser.toFuncID.
toFuncID(e, s) == parseInt(e, s)

BytesMarker == <<"b", "y", "t", "e", "s", ":", "[">>

\* addSample without the comparison of the counts with the sample names.
addSample_NoArityCheck(p, l) ==
  IF Contains(l, BytesMarker) THEN p
  ELSE LET lineParts == Split(l, ":")
       IN IF Len(lineParts) # 2
          THEN [p EXCEPT !.err = setError(p.err, ErrMalformedSample(l))]
          ELSE LET counts  == parseInts(p.err, lineParts[1])
                   funcIDs == parseFuncIDs(counts.err, lineParts[2])
               IN [p EXCEPT !.err = funcIDs.err,
                            !.records = Append(p.records,
                              [samples |-> counts.vs, stack |-> funcIDs.vs])]

\* addSample that parses a line holding bytes:[ like any other line.
addSample_NoBytesSkip(p, l) ==
  LET lineParts == Split(l, ":")
  IN IF Len(lineParts) # 2
     THEN [p EXCEPT !.err = setError(p.err, ErrMalformedSample(l))]
     ELSE LET counts  == parseInts(p.err, lineParts[1])
              funcIDs == parseFuncIDs(counts.err, lineParts[2])
          IN IF Len(counts.vs) # Len(p.sampleNames)
             THEN [p EXCEPT !.err =
                     setError(funcIDs.err,
                              ErrSampleCount(Len(counts.vs), Len(p.sampleNames), l))]
             ELSE [p EXCEPT !.err = funcIDs.err,
                            !.records = Append(p.records,
                              [samples |-> counts.vs, stack |-> funcIDs.vs])]

\* rawParser.addSample on the parser fields p.
addSample(p, l) ==
  IF Contains(l, BytesMarker) THEN p
  ELSE LET lineParts == Split(l, ":")
       IN IF Len(lineParts) # 2
          THEN [p EXCEPT !.err = setError(p.err, ErrMalformedSample(l))]
          ELSE LET counts  == parseInts(p.err, lineParts[1])
                   funcIDs == parseFuncIDs(counts.err, lineParts[2])
               IN IF Len(counts.vs) # Len(p.sampleNames)
                  THEN [p EXCEPT !.err =
                          setError(funcIDs.err,
                                   ErrSampleCount(Len(counts.vs), Len(p.sampleNames), l))]
                  ELSE [p EXCEPT !.err = funcIDs.err,
                                 !.records = Append(p.records,
                                   [samples |-> counts.vs, stack |-> funcIDs.vs])]

MPrefix == <<"M", "=">>

\* Assigning funcNames[id] = name in the Go map.
MapSet(m, k, v) == [x \in (DOMAIN m) \cup {k} |-> IF x = k THEN v ELSE m[x]]

\* addLocation that takes the third field as the name whatever it is.
addLocation_NoShift(p, l) ==
  LET parts == splitBySpace(l)
  IN IF Len(parts) < 4
     THEN IF Len(parts) # 2
          THEN [p EXCEPT !.err = setError(p.err, ErrMalformedLocation(l))]
          ELSE p
     ELSE LET id == toFuncID(p.err, TrimSuffix(parts[1], <<":">>))
          IN [p EXCEPT !.err = id.err,
                       !.funcNames = MapSet(p.funcNames, id.v, parts[3])]

\* rawParser.addLocation on the parser fields p.
addLocation(p, l) ==
  LET parts == splitBySpace(l)
  IN IF Len(parts) < 4
     THEN IF Len(parts) # 2
          THEN [p EXCEPT !.err = setError(p.err, ErrMalformedLocation(l))]
          ELSE p
     ELSE LET id == toFuncID(p.err, TrimSuffix(parts[1], <<":">>))
          IN IF HasPrefix(parts[3], MPrefix)
             THEN [p EXCEPT !.err = id.err,
                            !.funcNames = MapSet(p.funcNames, id.v, parts[4])]
             ELSE [p EXCEPT !.err = id.err,
                            !.funcNames = MapSet(p.funcNames, id.v, parts[3])]

SamplesMarker == <<"S", "a", "m", "p", "l", "e", "s">>

LocationsMarker == <<"L", "o", "c", "a", "t", "i", "o", "n", "s">>

MappingsMarker == <<"M", "a", "p", "p", "i", "n", "g", "s">>

\* processLine that starts over at a Samples marker wherever it is met.
processLine_Restart(p, l) ==
  IF HasPrefix(l, SamplesMarker) THEN [p EXCEPT !.state = samplesHeader]
  ELSE CASE p.state = ignore -> p
         [] p.state = samplesHeader ->
              [p EXCEPT !.sampleNames = Split(l, " "), !.state = samples]
         [] p.state = samples ->
              IF HasPrefix(l, LocationsMarker) THEN [p EXCEPT !.state = locations]
              ELSE addSample(p, l)
         [] p.state = locations ->
              IF HasPrefix(l, MappingsMarker) THEN [p EXCEPT !.state = mappings]
              ELSE addLocation(p, l)
         [] p.state = mappings -> p

\* rawParser.processLine on the parser fields p and a trimmed line.
processLine(p, l) ==
  CASE p.state = ignore ->
         IF HasPrefix(l, SamplesMarker) THEN [p EXCEPT !.state = samplesHeader]
         ELSE p
    [] p.state = samplesHeader ->
         [p EXCEPT !.sampleNames = Split(l, " "), !.state = samples]
    [] p.state = samples ->
         IF HasPrefix(l, LocationsMarker) THEN [p EXCEPT !.state = locations]
         ELSE addSample(p, l)
    [] p.state = locations ->
         IF HasPrefix(l, MappingsMarker) THEN [p EXCEPT !.state = mappings]
         ELSE addLocation(p, l)
    [] p.state = mappings -> p

(***************************************************************************)
(* The input: the lines a dump may hold, as read up to each newline.       *)
(***************************************************************************)
Lines == {
  <<>>,
  <<"S","a","m","p","l","e","s",":">>,
  <<"a"," ","b">>,
  <<"a"," "," ","b">>,
  <<"1"," ","2",":"," ","1"," ","2">>,
  <<"\t","3"," ","4",":"," ","1"," ","2">>,
  <<"5"," ","6",":"," ","2">>,
  <<"7",":"," ","1">>,
  <<"x"," ","y",":"," ","1">>,
  <<"b","y","t","e","s",":","[","8","]">>,
  <<"L","o","c","a","t","i","o","n","s">>,
  <<"1",":"," ","0","x"," ","f"," ",":","0">>,
  <<"2",":"," ","0","x"," ","M","=","1"," ","g"," ",":","0">>,
  <<"1",":"," ","0","x"," ","M","=","1"," ","h">>,
  <<"2",":"," ","0","x">>,
  <<"2",":"," ","0","x"," ","g">>,
  <<"M","a","p","p","i","n","g","s">> }

(***************************************************************************)
(* Package stack: Profile and Sample.                                      *)
(***************************************************************************)
\* A nil *stack.Profile.
NilProfile == [nil |-> TRUE]

\* NewProfile that accepts empty names.
NewProfile_NoEmptyCheck(names) ==
  IF Len(names) = 0
  THEN [profile |-> NilProfile, err |-> errProfileMustHaveSamples]
  ELSE [profile |-> [SampleNames |-> names, Samples |-> <<>>], err |-> NoErr]

\* NewProfile with one error for both rejections.
NewProfile_OneError(names) ==
  IF Len(names) = 0 \/ \E i \in 1..Len(names) : names[i] = <<>>
  THEN [profile |-> NilProfile, err |-> errProfileMustHaveSamples]
  ELSE [profile |-> [SampleNames |-> names, Samples |-> <<>>], err |-> NoErr]

\* stack.NewProfile.
NewProfile(names) ==
  IF Len(names) = 0
  THEN [profile |-> NilProfile, err |-> errProfileMustHaveSamples]
  ELSE IF \E i \in 1..Len(names) : names[i] = <<>>
  THEN [profile |-> NilProfile, err |-> errProfileEmptySampleNames]
  ELSE [profile |-> [SampleNames |-> names, Samples |-> <<>>], err |-> NoErr]

\* Add that stores the new counts instead of adding them.
Add_Overwrite(s, counts) ==
  IF Len(s.Counts) # Len(counts)
  THEN [sample |-> s, err |-> ErrAdd(Len(counts), Len(s.Counts))]
  ELSE [sample |-> [s EXCEPT !.Counts = counts], err |-> NoErr]

\* Add that adds the counts both lists have before it compares the lengths.
Add_BeforeCheck(s, counts) ==
  [sample |-> [s EXCEPT !.Counts =
                 [i \in 1..Len(s.Counts) |->
                    IF i <= Len(counts) THEN s.Counts[i] + counts[i] ELSE s.Counts[i]]],
   err |-> IF Len(s.Counts) # Len(counts)
           THEN ErrAdd(Len(counts), Len(s.Counts)) ELSE NoErr]

\* Sample.Add: the sample after the call and the error returned.
Add(s, counts) ==
  IF Len(s.Counts) # Len(counts)
  THEN [sample |-> s, err |-> ErrAdd(Len(counts), Len(s.Counts))]
  ELSE [sample |-> [s EXCEPT !.Counts =
                      [i \in 1..Len(s.Counts) |-> s.Counts[i] + counts[i]]],
        err |-> NoErr]

\* stack.NewSample: zeroed counts of the same length, then Add.
NewSample(funcs, counts) ==
  Add([Funcs |-> funcs, Counts |-> [i \in 1..Len(counts) |-> 0]], counts).sample

(***************************************************************************)
(* Aggregation (rawParser.toProfile).                                      *)
(***************************************************************************)
MissingFunction ==
  <<"m","i","s","s","i","n","g","-","f","u","n","c","t","i","o","n","-">>

\* getFunctionName that gives an unmapped id the empty name.
getFunctionName_Empty(names, id) ==
  IF id \in DOMAIN names THEN names[id] ELSE <<>>

\* getFunctionName: the mapped name, or missing-function-<id>.
getFunctionName(names, id) ==
  IF id \in DOMAIN names THEN names[id] ELSE MissingFunction \o FormatInt(id)

\* stackRecord.funcNames: the loop from i = len(r.stack)-1 down to 0, appending
\* the name of r.stack[i] (here positions count from 1).
RECURSIVE funcNamesFrom(_, _, _)
funcNamesFrom(r, names, i) ==
  IF i < 1 THEN <<>>
  ELSE <<getFunctionName(names, r.stack[i])>> \o funcNamesFrom(r, names, i - 1)

\* funcNames in the order of r.stack, leaf first.
recordFuncNames_LeafFirst(r, names) ==
  [i \in 1..Len(r.stack) |-> getFunctionName(names, r.stack[i])]

recordFuncNames(r, names) == funcNamesFrom(r, names, Len(r.stack))

\* The key of toProfile's map.
funcKey(r, names) == Join(recordFuncNames(r, names), <<";">>)

\* The turn of the loop that leaves out a record whose key the map has.
aggregateRecord_DropRepeat(m, r, names) ==
  LET key == funcKey(r, names)
  IN IF key \in DOMAIN m
     THEN [map |-> m, err |-> NoErr]
     ELSE [map |-> MapSet(m, key, NewSample(recordFuncNames(r, names), r.samples)),
           err |-> NoErr]

\* One turn of toProfile's loop over p.records: the map after it and the error
\* that makes toProfile return early.
aggregateRecord(m, r, names) ==
  LET key == funcKey(r, names)
  IN IF key \in DOMAIN m
     THEN LET a == Add(m[key], r.samples)
          IN IF a.err # NoErr THEN [map |-> m, err |-> a.err]
             ELSE [map |-> MapSet(m, key, a.sample), err |-> NoErr]
     ELSE [map |-> MapSet(m, key, NewSample(recordFuncNames(r, names), r.samples)),
           err |-> NoErr]

EmptyMap == [x \in {} |-> <<>>]

\* The whole loop of toProfile over a list of records.
RECURSIVE aggregate(_, _, _)
aggregate(m, rs, names) ==
  IF rs = <<>> THEN [map |-> m, err |-> NoErr]
  ELSE LET first == aggregateRecord(m, Head(rs), names)
       IN IF first.err # NoErr THEN first
          ELSE aggregate(first.map, Tail(rs), names)

\* The orders in which ranging over a Go map may visit the keys S.
Orders(S) ==
  {f \in [1..Cardinality(S) -> S] : \A i, j \in 1..Cardinality(S) : f[i] = f[j] => i = j}

(***************************************************************************)
(* State.                                                                  *)
(***************************************************************************)
VARIABLES
  state,        \* rawParser.state
  funcNames,    \* rawParser.funcNames: funcID -> name
  sampleNames,  \* rawParser.sampleNames
  records,      \* rawParser.records
  err,          \* rawParser.err
  line,         \* parse's local: what ReadString returned last, trimmed
  nRead,        \* lines read from the buffer so far
  pc,           \* position inside ParseRaw
  profile,      \* toProfile's local profile
  sampleMap,    \* toProfile's local map samples: key -> Sample
  idx,          \* toProfile's position in p.records
  ret,          \* what ParseRaw returned
  call,         \* the last call of a function of package stack or renderer
  graph,        \* the parsed DOT graph handed to GraphAsText
  gpc,          \* position inside GraphAsText
  frames,       \* the calls of dfs in progress, innermost last
  colorMap,     \* GraphAsText's colorMap: node name -> color
  buffer,       \* what dfs wrote to the bytes.Buffer, one entry per write
  warnings,     \* what dfs logged with logrus.Warn
  rootIdx,      \* GraphAsText's position in inDegreeZeroNodes
  gret          \* what GraphAsText returned

rawVars ==
  <<state, funcNames, sampleNames, records, err, line, nRead, pc,
    profile, sampleMap, idx, ret>>

libVars == <<call>>

graphVars == <<graph, gpc, frames, colorMap, buffer, warnings, rootIdx, gret>>

vars == <<rawVars, libVars, graphVars>>

parserVars == <<state, funcNames, sampleNames, records, err>>

\* The rawParser fields as one record.
Parser ==
  [state |-> state, funcNames |-> funcNames, sampleNames |-> sampleNames,
   records |-> records, err |-> err]

NoReturn == [profile |-> NilProfile, err |-> NoErr, returned |-> FALSE]

Return(p, e) == [profile |-> p, err |-> e, returned |-> TRUE]

\* No call of package stack or renderer was made.
LibIdle == call = [fn |-> "none"]

NoGraph == [nodes |-> <<>>, edges |-> <<>>]

NoGraphReturn == [text |-> <<>>, err |-> NoErr, returned |-> FALSE]

\* GraphAsText is not running.
GraphIdle ==
  /\ graph = NoGraph
  /\ gpc = "idle"
  /\ frames = <<>>
  /\ colorMap = EmptyMap
  /\ buffer = <<>>
  /\ warnings = <<>>
  /\ rootIdx = 0
  /\ gret = NoGraphReturn

\* newRawParser, and ParseRaw about to read its first line.
Init ==
  /\ LibIdle
  /\ GraphIdle
  /\ state = ignore
  /\ funcNames = EmptyMap
  /\ sampleNames = <<>>
  /\ records = <<>>
  /\ err = NoErr
  /\ line = <<>>
  /\ nRead = 0
  /\ pc = "parse"
  /\ profile = NilProfile
  /\ sampleMap = EmptyMap
  /\ idx = 0
  /\ ret = NoReturn

\* One turn of parse's loop: ReadString returns a line of the input,
\* processLine handles it trimmed.
ReadLineFrom(input) ==
  /\ pc = "parse"
  /\ nRead < MaxLines
  /\ \E raw \in input :
       LET l == TrimSpace(raw)
           q == processLine(Parser, l)
       IN /\ line' = l
          /\ state' = q.state
          /\ funcNames' = q.funcNames
          /\ sampleNames' = q.sampleNames
          /\ records' = q.records
          /\ err' = q.err
  /\ nRead' = nRead + 1
  /\ UNCHANGED <<pc, profile, sampleMap, idx, ret>>
  /\ UNCHANGED <<libVars, graphVars>>

\* The loop's turn over a dump made of the lines of Lines.
ReadLine == ReadLineFrom(Lines)

\* The end-of-input check with the comparison against samples.
parseEnd_BeforeSamples(st, e) == IF st < samples THEN setError(e, ErrEnded(st)) ELSE e

\* The error parse returns once ReadString reports io.EOF.
parseEnd(st, e) == IF st < locations THEN setError(e, ErrEnded(st)) ELSE e

\* ReadString returns io.EOF together with the bytes after the last newline,
\* one of tails: they are assigned to line and not handed to processLine.
\* Then the end-of-input check, parse returns p.err, and ParseRaw returns it
\* when it is an error.
EndOfInputWith(tails) ==
  /\ pc = "parse"
  /\ line' \in tails
  /\ err' = parseEnd(state, err)
  /\ IF err' # NoErr
     THEN pc' = "done" /\ ret' = Return(NilProfile, err')
     ELSE pc' = "toProfile" /\ ret' = ret
  /\ UNCHANGED <<state, funcNames, sampleNames, records, nRead, profile, sampleMap, idx>>
  /\ UNCHANGED <<libVars, graphVars>>

\* The end of a dump whose last byte is a newline.
EndOfInput == EndOfInputWith({<<>>})

\* toProfile up to its loop: NewProfile and the empty map.
BeginProfile ==
  /\ pc = "toProfile"
  /\ LET n == NewProfile(sampleNames)
     IN IF n.err # NoErr
        THEN /\ pc' = "done"
             /\ ret' = Return(NilProfile, n.err)
             /\ UNCHANGED <<profile, sampleMap, idx>>
        ELSE /\ pc' = "aggregate"
             /\ profile' = n.profile
             /\ sampleMap' = EmptyMap
             /\ idx' = 1
             /\ ret' = ret
  /\ UNCHANGED <<parserVars, line, nRead>>
  /\ UNCHANGED <<libVars, graphVars>>

\* One turn of toProfile's loop.
AggregateRecord ==
  /\ pc = "aggregate"
  /\ idx <= Len(records)
  /\ LET a == aggregateRecord(sampleMap, records[idx], funcNames)
     IN IF a.err # NoErr
        THEN /\ pc' = "done"
             /\ ret' = Return(NilProfile, a.err)
             /\ UNCHANGED <<sampleMap, idx>>
        ELSE /\ sampleMap' = a.map
             /\ idx' = idx + 1
             /\ UNCHANGED <<pc, ret>>
  /\ UNCHANGED <<parserVars, line, nRead, profile>>
  /\ UNCHANGED <<libVars, graphVars>>

\* The end of toProfile: the map's samples, in the order the map yields them.
BuildSamples ==
  /\ pc = "aggregate"
  /\ idx > Len(records)
  /\ \E order \in Orders(DOMAIN sampleMap) :
       /\ profile' = [profile EXCEPT !.Samples =
                        [i \in 1..Len(order) |-> sampleMap[order[i]]]]
       /\ ret' = Return(profile', NoErr)
  /\ pc' = "done"
  /\ UNCHANGED <<parserVars, line, nRead, sampleMap, idx>>
  /\ UNCHANGED <<libVars, graphVars>>

Next ==
  \/ ReadLine
  \/ EndOfInput
  \/ BeginProfile
  \/ AggregateRecord
  \/ BuildSamples

Spec == Init /\ [][Next]_vars

(***************************************************************************)
(* ParseRaw over dumps of a memory profile: a header with two or three     *)
(* counters (one of them an empty token), sample lines of both arities and *)
(* the bytes:[ annotation lines, alone and inside other text.              *)
(***************************************************************************)
HeaderLines == {
  <<>>,
  <<"S","a","m","p","l","e","s",":">>,
  <<"a"," ","b">>,
  <<"a"," "," ","b">>,
  <<"1"," ","2",":"," ","1"," ","2">>,
  <<"2"," ","3"," ","4",":"," ","1"," ","2">>,
  <<"b","y","t","e","s",":","[","8","]">>,
  <<"1"," ","2",":"," ","b","y","t","e","s",":","["," ","x">>,
  <<"x","b","y","t","e","s",":","[","1",":","2",":","3">>,
  <<"L","o","c","a","t","i","o","n","s">>,
  <<"1",":"," ","0","x"," ","f"," ",":","0">> }

HeaderReadLine == ReadLineFrom(HeaderLines)

HeaderNext ==
  \/ HeaderReadLine
  \/ EndOfInput
  \/ BeginProfile
  \/ AggregateRecord
  \/ BuildSamples

HeaderSpec == Init /\ [][HeaderNext]_vars

(***************************************************************************)
(* ParseRaw over dumps whose last line has no newline.                     *)
(***************************************************************************)
TailLines == {
  <<"S","a","m","p","l","e","s",":">>,
  <<"a"," ","b">>,
  <<"1"," ","2",":"," ","1"," ","2">>,
  <<"3"," ","4",":"," ","2">>,
  <<"L","o","c","a","t","i","o","n","s">>,
  <<"1",":"," ","0","x"," ","f"," ",":","0">>,
  <<"M","a","p","p","i","n","g","s">> }

\* What a dump may end with after its last newline: nothing, or a line.
Tails == {<<>>} \cup TailLines \cup {<<"x", ":">>, <<"1", ":", " ", "0", "x", "\r">>}

TailReadLine == ReadLineFrom(TailLines)

\* The end of input that hands the bytes after the last newline to
\* processLine before the end-of-input check.
TailEndOfInput_ProcessTail ==
  /\ pc = "parse"
  /\ \E tail \in Tails :
       LET q == IF tail = <<>> THEN Parser ELSE processLine(Parser, TrimSpace(tail))
       IN /\ line' = tail
          /\ state' = q.state
          /\ funcNames' = q.funcNames
          /\ sampleNames' = q.sampleNames
          /\ records' = q.records
          /\ err' = parseEnd(q.state, q.err)
  /\ IF err' # NoErr
     THEN pc' = "done" /\ ret' = Return(NilProfile, err')
     ELSE pc' = "toProfile" /\ ret' = ret
  /\ UNCHANGED <<nRead, profile, sampleMap, idx>>
  /\ UNCHANGED <<libVars, graphVars>>

TailEndOfInput == EndOfInputWith(Tails)

TailNext ==
  \/ TailReadLine
  \/ TailEndOfInput
  \/ BeginProfile
  \/ AggregateRecord
  \/ BuildSamples

TailSpec == Init /\ [][TailNext]_vars

(***************************************************************************)
(* The aggregation on its own: ParseRaw at the point where parse has       *)
(* returned without error, for the parser fields a dump can leave behind   *)
(* (any list of records of the declared arity, any funcID map).            *)
(***************************************************************************)
ParsedStacks == {<<1>>, <<1, 2>>, <<2, 1>>}

ParsedCounts == {<<1, 2>>, <<3, -1>>}

ParsedRecords == [samples : ParsedCounts, stack : ParsedStacks]

\* No location, one, two ids with one name, and a name holding the separator.
ParsedFuncNames ==
  { EmptyMap,
    MapSet(EmptyMap, 1, <<"f">>),
    MapSet(MapSet(EmptyMap, 1, <<"f">>), 2, <<"f">>),
    MapSet(MapSet(EmptyMap, 1, <<"f">>), 2, <<"f", ";", "f">>) }

RecordLists ==
  UNION {[1..n -> ParsedRecords] : n \in 0..MaxRecords}

AggInit ==
  /\ LibIdle
  /\ GraphIdle
  /\ state \in {locations, mappings}
  /\ funcNames \in ParsedFuncNames
  /\ sampleNames = <<<<"a">>, <<"b">>>>
  /\ records \in RecordLists
  /\ err = NoErr
  /\ line = <<>>
  /\ nRead = 3 + Len(records) + Cardinality(DOMAIN funcNames) + (state - locations)
  /\ pc = "toProfile"
  /\ profile = NilProfile
  /\ sampleMap = EmptyMap
  /\ idx = 0
  /\ ret = NoReturn

AggNext ==
  \/ BeginProfile
  \/ AggregateRecord
  \/ BuildSamples

AggSpec == AggInit /\ [][AggNext]_vars

(***************************************************************************)
(* Package stack and the renderer called on their own.                     *)
(***************************************************************************)
\* ParseRaw is not running.
RawIdle ==
  /\ state = ignore
  /\ funcNames = EmptyMap
  /\ sampleNames = <<>>
  /\ records = <<>>
  /\ err = NoErr
  /\ line = <<>>
  /\ nRead = 0
  /\ pc = "idle"
  /\ profile = NilProfile
  /\ sampleMap = EmptyMap
  /\ idx = 0
  /\ ret = NoReturn

\* The lists of at most n elements of S.
SeqsUpTo(S, n) == UNION {[1..k -> S] : k \in 0..n}

CounterNames == {<<>>, <<"a">>, <<"b">>}

\* Names as the aggregation gives them, one with a space inside, an empty one,
\* and one holding the separator.
FuncLists ==
  { <<<<"f">>>>, <<<<"f">>, <<"g", " ", "h">>>>, <<<<>>, <<"m">>>>,
    <<<<"f", ";", "f">>>> }

CountValues == {-3, 0, 120}

LibInit ==
  /\ RawIdle
  /\ GraphIdle
  /\ LibIdle

CallNewProfile ==
  /\ call.fn = "none"
  /\ \E names \in SeqsUpTo(CounterNames, MaxNames) :
       LET r == NewProfile(names)
       IN call' = [fn |-> "NewProfile", names |-> names,
                   profile |-> r.profile, err |-> r.err]
  /\ UNCHANGED <<rawVars, graphVars>>

CallNewSample ==
  /\ call.fn = "none"
  /\ \E funcs \in FuncLists, counts \in SeqsUpTo(CountValues, 2) :
       call' = [fn |-> "NewSample", funcs |-> funcs, counts |-> counts,
                sample |-> NewSample(funcs, counts), adds |-> 0]
  /\ UNCHANGED <<rawVars, graphVars>>

\* Add on the Sample of the previous call.
CallAdd ==
  /\ call.fn \in {"NewSample", "Add"}
  /\ call.adds < MaxAdds
  /\ \E counts \in SeqsUpTo(CountValues, 2) :
       LET r == Add(call.sample, counts)
       IN call' = [fn |-> "Add", before |-> call.sample, counts |-> counts,
                   sample |-> r.sample, err |-> r.err, adds |-> call.adds + 1]
  /\ UNCHANGED <<rawVars, graphVars>>

\* renderSample that ends no line.
renderSample_NoNewline(funcs, count) ==
  Join(funcs, <<";">>) \o <<" ">> \o FormatInt(count)

\* renderSample that separates the names by a space.
renderSample_SpaceJoined(funcs, count) ==
  Join(funcs, <<" ">>) \o <<" ">> \o FormatInt(count) \o <<"\n">>

\* renderSample: the names joined by ";", a space, the count and a newline.
renderSample(funcs, count) ==
  Join(funcs, <<";">>) \o <<" ">> \o FormatInt(count) \o <<"\n">>

\* The loop of ToFlameInput over the samples from position i on.
RECURSIVE renderSamples(_, _, _)
renderSamples(ss, sampleIndex, i) ==
  IF i > Len(ss) THEN <<>>
  ELSE renderSample(ss[i].Funcs, ss[i].Counts[sampleIndex + 1])
         \o renderSamples(ss, sampleIndex, i + 1)

\* renderer.ToFlameInput(profile, sampleIndex): the bytes and the error.
ToFlameInput(p, sampleIndex) ==
  [out |-> renderSamples(p.Samples, sampleIndex, 1), err |-> NoErr]

\* The Profiles with k counters and at most MaxSamples Samples.
Profiles(k) ==
  [SampleNames : {[i \in 1..k |-> IF i = 1 THEN <<"a">> ELSE <<"b">>]},
   Samples : SeqsUpTo([Funcs : FuncLists, Counts : [1..k -> CountValues]], MaxSamples)]

CallToFlameInput ==
  /\ call.fn = "none"
  /\ \E k \in 1..2 :
       \E p \in Profiles(k), sampleIndex \in 0..(k - 1) :
         LET r == ToFlameInput(p, sampleIndex)
         IN call' = [fn |-> "ToFlameInput", profile |-> p, sampleIndex |-> sampleIndex,
                     out |-> r.out, err |-> r.err]
  /\ UNCHANGED <<rawVars, graphVars>>

(***************************************************************************)
(* Package graph: GraphAsText on a parsed DOT graph.                       *)
(***************************************************************************)
WHITE == 0
GRAY == 1
BLACK == 2

errNoActivity == [kind |-> "no activity"]

\* Reading a Go map[string]string: the empty string for a missing key.
Attr(attrs, key) == IF key \in DOMAIN attrs THEN attrs[key] ELSE <<>>

\* colorMap[name]: WHITE, the zero value, for a name not yet assigned.
ColorOf(m, name) == IF name \in DOMAIN m THEN m[name] ELSE WHITE

\* strings.Replace(s, old, new, -1) for a non-empty old.
RECURSIVE ReplaceAll(_, _, _)
ReplaceAll(s, old, new) ==
  IF Len(s) < Len(old) THEN s
  ELSE IF HasPrefix(s, old)
  THEN new \o ReplaceAll(SubSeq(s, Len(old) + 1, Len(s)), old, new)
  ELSE <<Head(s)>> \o ReplaceAll(Tail(s), old, new)

\* getFormattedFunctionLabel: the tooltip with every backslash-n replaced by a
\* space and every double quote removed.
getFormattedFunctionLabel(node) ==
  ReplaceAll(ReplaceAll(Attr(node.Attrs, "tooltip"), <<"\\", "n">>, <<" ">>),
             <<"\"">>, <<>>)

\* dag.Nodes.Lookup[name].
Lookup(dag, name) ==
  dag.nodes[CHOOSE i \in 1..Len(dag.nodes) : dag.nodes[i].Name = name]

\* generateNodeToOutEdges: for every source of an edge, its edges in the
\* order of dag.Edges.Edges.
generateNodeToOutEdges(dag) ==
  [name \in {dag.edges[i].Src : i \in 1..Len(dag.edges)} |->
     LET FromName(edge) == edge.Src = name
     IN SelectSeq(dag.edges, FromName)]

\* nodeToOutEdges[name]: nil for a name that is the source of no edge.
OutEdges(dag, name) ==
  LET m == generateNodeToOutEdges(dag)
  IN IF name \in DOMAIN m THEN m[name] ELSE <<>>

NPrefix == <<"N">>

\* getInDegreeZeroNodes that takes every node no edge ends at.
getInDegreeZeroNodes_AnyName(dag) ==
  LET IsRoot(node) == \A i \in 1..Len(dag.edges) : dag.edges[i].Dst # node.Name
      roots == SelectSeq(dag.nodes, IsRoot)
  IN [i \in 1..Len(roots) |-> roots[i].Name]

\* getInDegreeZeroNodes: the names starting with N that no edge ends at, in
\* the order of dag.Nodes.Nodes.
getInDegreeZeroNodes(dag) ==
  LET IsRoot(node) ==
        /\ HasPrefix(node.Name, NPrefix)
        /\ \A i \in 1..Len(dag.edges) : dag.edges[i].Dst # node.Name
      roots == SelectSeq(dag.nodes, IsRoot)
  IN [i \in 1..Len(roots) |-> roots[i].Name]

\* strconv.Atoi of a weight attribute.  The weights of the graphs below are
\* integers, as pprof writes them, so the error that makes pathAsString
\* panic does not arise.
Atoi(s) == ParseInt(s).v

\* The sum that counts an edge without weight as one call.
RECURSIVE weightSum_MissingIsOne(_)
weightSum_MissingIsOne(path) ==
  IF path = <<>> THEN 0
  ELSE (IF "weight" \in DOMAIN Head(path).Attrs THEN Atoi(Head(path).Attrs["weight"]) ELSE 1)
         + weightSum_MissingIsOne(Tail(path))

\* The loop of pathAsString that sums the weights.
RECURSIVE weightSum(_)
weightSum(path) ==
  IF path = <<>> THEN 0
  ELSE (IF "weight" \in DOMAIN Head(path).Attrs THEN Atoi(Head(path).Attrs["weight"]) ELSE 0)
         + weightSum(Tail(path))

\* The loop of pathAsString that writes the label of every edge's source.
RECURSIVE sourceLabels(_, _)
sourceLabels(path, dag) ==
  IF path = <<>> THEN <<>>
  ELSE getFormattedFunctionLabel(Lookup(dag, Head(path).Src)) \o <<";">>
         \o sourceLabels(Tail(path), dag)

\* pathAsString with the weight of the last edge in place of the sum.
pathAsString_LastWeight(path, dag) ==
  sourceLabels(path, dag)
    \o (IF Len(path) >= 1
        THEN getFormattedFunctionLabel(Lookup(dag, path[Len(path)].Dst)) \o <<" ">>
        ELSE <<>>)
    \o FormatInt(IF path = <<>> THEN 0 ELSE weightSum(<<path[Len(path)]>>))
    \o <<"\n">>

\* pathAsString.
pathAsString(path, dag) ==
  sourceLabels(path, dag)
    \o (IF Len(path) >= 1
        THEN getFormattedFunctionLabel(Lookup(dag, path[Len(path)].Dst)) \o <<" ">>
        ELSE <<>>)
    \o FormatInt(weightSum(path))
    \o <<"\n">>

\* bytes.Buffer.String(): the writes one after the other.
RECURSIVE Concat(_)
Concat(chunks) ==
  IF chunks = <<>> THEN <<>> ELSE Head(chunks) \o Concat(Tail(chunks))

(***************************************************************************)
(* The graphs: every choice of at most MaxEdges edges among four nodes     *)
(* (self loops and cycles included), declared alone or together with the   *)
(* untouched nodes and a cluster parsed as a node, and the graphs of the   *)
(* package's tests.                                                        *)
(***************************************************************************)
NoAttrs == [x \in {} |-> <<>>]

Tooltip(t) == [x \in {"tooltip"} |-> t]

Weight(w) == [x \in {"weight"} |-> w]

\* N1 has a quoted tooltip, N2 one with an escaped newline.
CallNodes ==
  << [Name |-> <<"N", "1">>, Attrs |-> Tooltip(<<"\"", "a", "\"">>)],
     [Name |-> <<"N", "2">>, Attrs |-> Tooltip(<<"b", "\\", "n", "c">>)],
     [Name |-> <<"N", "3">>, Attrs |-> Tooltip(<<"c">>)],
     [Name |-> <<"N", "4">>, Attrs |-> Tooltip(<<"d">>)] >>

ClusterNode == [Name |-> <<"L">>, Attrs |-> Tooltip(<<"l">>)]

\* The edge from CallNodes[i] to CallNodes[j]; pprof records no weight for a
\* rare call.
CallEdge(i, j) ==
  [Src |-> CallNodes[i].Name, Dst |-> CallNodes[j].Name,
   Attrs |-> IF (i + j) % 3 = 0 THEN NoAttrs ELSE Weight(FormatInt(2 * i + j))]

EdgeChoices ==
  {S \in SUBSET ((DOMAIN CallNodes) \X (DOMAIN CallNodes)) : Cardinality(S) <= MaxEdges}

\* The chosen edges in the order source, destination.
EdgesOf(S) ==
  LET n == Len(CallNodes)
      Chosen(k) == <<((k - 1) \div n) + 1, ((k - 1) % n) + 1>> \in S
      ks == SelectSeq([k \in 1..(n * n) |-> k], Chosen)
  IN [x \in 1..Len(ks) |-> CallEdge(((ks[x] - 1) \div n) + 1, ((ks[x] - 1) % n) + 1)]

\* The nodes an edge of S touches, in the order of CallNodes.
NodesOf(S) ==
  LET Touched(node) ==
        \E pair \in S : CallNodes[pair[1]].Name = node.Name \/ CallNodes[pair[2]].Name = node.Name
  IN SelectSeq(CallNodes, Touched)

GeneratedGraphs ==
  {[nodes |-> NodesOf(S), edges |-> EdgesOf(S)] : S \in EdgeChoices}
    \cup {[nodes |-> <<ClusterNode>> \o CallNodes, edges |-> EdgesOf(S)] : S \in EdgeChoices}

TestNode(d, attrs) == [Name |-> <<"N", d>>, Attrs |-> attrs]

TestEdge(a, b, attrs) == [Src |-> <<"N", a>>, Dst |-> <<"N", b>>, Attrs |-> attrs]

QuotedName(d) == Tooltip(<<"\"", "N", d, "\"">>)

\* The DOT text of TestGraphAsText.
TestGraphAsTextInput ==
  [nodes |-> [i \in 1..6 |-> TestNode(DigitChars[i + 1], QuotedName(DigitChars[i + 1]))],
   edges |-> << TestEdge("1", "2", Weight(<<"1">>)), TestEdge("1", "3", Weight(<<"2">>)),
                TestEdge("4", "5", Weight(<<"1">>)), TestEdge("4", "6", Weight(<<"4">>)),
                TestEdge("6", "5", Weight(<<"4">>)) >>]

testSingleRootGraph ==
  [nodes |-> [i \in 1..4 |-> TestNode(DigitChars[i + 1], NoAttrs)],
   edges |-> << TestEdge("1", "2", NoAttrs), TestEdge("2", "3", NoAttrs),
                TestEdge("4", "3", NoAttrs), TestEdge("1", "4", NoAttrs),
                TestEdge("1", "3", NoAttrs) >>]

testGraphWithTooltipAndWeight ==
  [nodes |-> [i \in 1..4 |->
                TestNode(DigitChars[i + 1], Tooltip(<<"f", DigitChars[i + 1]>>))],
   edges |-> << TestEdge("1", "2", Weight(<<"5">>)), TestEdge("2", "3", Weight(<<"2">>)),
                TestEdge("3", "4", Weight(<<"2">>)), TestEdge("1", "4", Weight(<<"1">>)) >>]

TestGraphs == {TestGraphAsTextInput, testSingleRootGraph, testGraphWithTooltipAndWeight}

Graphs == GeneratedGraphs \cup TestGraphs

(***************************************************************************)
(* pathAsString called on its own, on the paths of at most MaxPath edges   *)
(* of the graph with every edge between the four nodes; and the calls of   *)
(* the packages stack and renderer together with it.                       *)
(***************************************************************************)
CompleteGraph ==
  [nodes |-> CallNodes, edges |-> EdgesOf((DOMAIN CallNodes) \X (DOMAIN CallNodes))]

IsChain(path) == \A k \in 1..(Len(path) - 1) : path[k].Dst = path[k + 1].Src

CallPathAsString ==
  /\ call.fn = "none"
  /\ \E path \in SeqsUpTo({CompleteGraph.edges[i] : i \in DOMAIN CompleteGraph.edges},
                           MaxPath) :
       /\ IsChain(path)
       /\ call' = [fn |-> "pathAsString", path |-> path, dag |-> CompleteGraph,
                   out |-> pathAsString(path, CompleteGraph)]
  /\ UNCHANGED <<rawVars, graphVars>>

(***************************************************************************)
(* SelectSample: the index of the counter the command line selects.        *)
(***************************************************************************)
InuseSpaceFlag == <<"-", "i", "n", "u", "s", "e", "_", "s", "p", "a", "c", "e">>

InuseObjectsFlag == <<"-", "i", "n", "u", "s", "e", "_", "o", "b", "j", "e", "c", "t", "s">>

AllocSpaceFlag == <<"-", "a", "l", "l", "o", "c", "_", "s", "p", "a", "c", "e">>

AllocObjectsFlag == <<"-", "a", "l", "l", "o", "c", "_", "o", "b", "j", "e", "c", "t", "s">>

SampleIndexFlag == <<"-", "s", "a", "m", "p", "l", "e", "_", "i", "n", "d", "e", "x">>

InuseSpaceName == <<"i", "n", "u", "s", "e", "_", "s", "p", "a", "c", "e", "/", "b", "y", "t", "e", "s">>

InuseObjectsName == <<"i", "n", "u", "s", "e", "_", "o", "b", "j", "e", "c", "t", "s", "/", "c", "o", "u", "n", "t">>

AllocSpaceName == <<"a", "l", "l", "o", "c", "_", "s", "p", "a", "c", "e", "/", "b", "y", "t", "e", "s">>

AllocObjectsName == <<"a", "l", "l", "o", "c", "_", "o", "b", "j", "e", "c", "t", "s", "/", "c", "o", "u", "n", "t">>

\* parseSampleIndex that accepts every number.
parseSampleIndex_NoRangeCheck(s, names) ==
  IF ~ParseInt(s).ok THEN [v |-> 0, ok |-> FALSE]
  ELSE [v |-> ParseInt(s).v, ok |-> TRUE]

\* parseSampleIndex: strconv.Atoi, then the test against len(names).
parseSampleIndex(s, names) ==
  IF ~ParseInt(s).ok THEN [v |-> 0, ok |-> FALSE]
  ELSE IF ParseInt(s).v >= Len(names) \/ ParseInt(s).v < 0 THEN [v |-> 0, ok |-> FALSE]
  ELSE [v |-> ParseInt(s).v, ok |-> TRUE]

\* The closure findName: the loop assigns selected at every match, so the
\* last match stays.  Indexes are Go's, from 0.
RECURSIVE findName(_, _, _, _)
findName(selected, needle, names, i) ==
  IF i > Len(names) THEN selected
  ELSE findName(IF names[i] = needle THEN i - 1 ELSE selected, needle, names, i + 1)

\* One iteration of the loop over args, at the position i (from 1).
selectArg(selected, args, names, i) ==
  LET arg == args[i]
  IN IF arg = InuseSpaceFlag THEN findName(selected, InuseSpaceName, names, 1)
     ELSE IF arg = InuseObjectsFlag THEN findName(selected, InuseObjectsName, names, 1)
     ELSE IF arg = AllocSpaceFlag THEN findName(selected, AllocSpaceName, names, 1)
     ELSE IF arg = AllocObjectsFlag THEN findName(selected, AllocObjectsName, names, 1)
     ELSE IF arg = SampleIndexFlag
          THEN IF i >= Len(args) THEN selected
               ELSE IF parseSampleIndex(args[i + 1], names).ok
                    THEN parseSampleIndex(args[i + 1], names).v
                    ELSE selected
     ELSE selected

RECURSIVE selectLoop(_, _, _, _)
selectLoop(selected, args, names, i) ==
  IF i > Len(args) THEN selected
  ELSE selectLoop(selectArg(selected, args, names, i), args, names, i + 1)

SelectSample(args, names) == selectLoop(0, args, names, 1)

\* The counter names of TestSelectSample, a single one, none, and a list
\* with one name twice.
TestSelectSampleNames ==
  <<<<"s", "a", "m", "p", "l", "e", "s", "/", "c", "o", "u", "n", "t">>,
    <<"c", "p", "u", "/", "n", "a", "n", "o", "s", "e", "c", "o", "n", "d", "s">>,
    AllocObjectsName, AllocSpaceName, InuseObjectsName, InuseSpaceName>>

SelectNames ==
  { TestSelectSampleNames, <<<<"s", "a", "m", "p", "l", "e", "s", "/", "c", "o", "u", "n", "t">>>>, <<>>,
    <<AllocSpaceName, <<"s", "a", "m", "p", "l", "e", "s", "/", "c", "o", "u", "n", "t">>, AllocSpaceName>> }

\* The arguments of TestSelectSample.
SelectArgs ==
  { InuseSpaceFlag, InuseObjectsFlag, AllocSpaceFlag, AllocObjectsFlag, SampleIndexFlag,
    <<"5">>, <<"2">>, <<"-", "1">>, <<"n", "a", "n">>, <<"1", "0">>,
    <<"-", "u", "n", "k", "n", "o", "w", "n">> }

CallSelectSample ==
  /\ call.fn = "none"
  /\ \E args \in SeqsUpTo(SelectArgs, MaxArgs) : \E names \in SelectNames :
       call' = [fn |-> "SelectSample", args |-> args, names |-> names,
                out |-> SelectSample(args, names)]
  /\ UNCHANGED <<rawVars, graphVars>>

LibNext ==
  \/ CallNewProfile
  \/ CallNewSample
  \/ CallAdd
  \/ CallToFlameInput
  \/ CallPathAsString
  \/ CallSelectSample

LibSpec == LibInit /\ [][LibNext]_vars

(***************************************************************************)
(* GraphAsText and dfs.  A call of dfs in progress is a frame: its root,   *)
(* its path, and next, 0 on entry and then the position in outEdges of the *)
(* edge the loop takes next.                                               *)
(***************************************************************************)
\* GraphAsText called on a graph of G, before its first statement.
GraphAsTextCalled(G) ==
  /\ RawIdle
  /\ LibIdle
  /\ graph \in G
  /\ gpc = "start"
  /\ frames = <<>>
  /\ colorMap = EmptyMap
  /\ buffer = <<>>
  /\ warnings = <<>>
  /\ rootIdx = 0
  /\ gret = NoGraphReturn

GraphInit == GraphAsTextCalled(Graphs)

Top == frames[Len(frames)]

Pop == SubSeq(frames, 1, Len(frames) - 1)

\* GraphAsText that goes on to the roots of a graph without edges.
GraphAsTextStart_NoEdgeTest ==
  /\ gpc = "start"
  /\ gpc' = "roots"
  /\ rootIdx' = 1
  /\ gret' = gret
  /\ UNCHANGED <<graph, frames, colorMap, buffer, warnings>>
  /\ UNCHANGED <<rawVars, libVars>>

\* GraphAsText up to its loop over the roots.
GraphAsTextStart ==
  /\ gpc = "start"
  /\ IF Len(graph.edges) = 0
     THEN /\ gpc' = "done"
          /\ gret' = [text |-> <<>>, err |-> errNoActivity, returned |-> TRUE]
          /\ rootIdx' = rootIdx
     ELSE /\ gpc' = "roots"
          /\ rootIdx' = 1
          /\ gret' = gret
  /\ UNCHANGED <<graph, frames, colorMap, buffer, warnings>>
  /\ UNCHANGED <<rawVars, libVars>>

\* One turn of GraphAsText's loop: the call of dfs on the next root with a
\* nil path.
StartRoot ==
  /\ gpc = "roots"
  /\ frames = <<>>
  /\ rootIdx <= Len(getInDegreeZeroNodes(graph))
  /\ frames' = <<[root |-> getInDegreeZeroNodes(graph)[rootIdx], path |-> <<>>, next |-> 0]>>
  /\ rootIdx' = rootIdx + 1
  /\ UNCHANGED <<graph, gpc, colorMap, buffer, warnings, gret>>
  /\ UNCHANGED <<rawVars, libVars>>

\* The cycle branch that writes the path instead of logging it.
DfsCycle_KeepPath ==
  /\ frames # <<>>
  /\ Top.next = 0
  /\ ColorOf(colorMap, Top.root) = GRAY
  /\ buffer' = Append(buffer, pathAsString(Top.path, graph))
  /\ frames' = Pop
  /\ UNCHANGED <<graph, gpc, colorMap, warnings, rootIdx, gret>>
  /\ UNCHANGED <<rawVars, libVars>>

\* The cycle branch that marks the node done.
DfsCycle_MarkDone ==
  /\ frames # <<>>
  /\ Top.next = 0
  /\ ColorOf(colorMap, Top.root) = GRAY
  /\ warnings' = Append(warnings, TrimSpace(pathAsString(Top.path, graph)))
  /\ colorMap' = MapSet(colorMap, Top.root, BLACK)
  /\ frames' = Pop
  /\ UNCHANGED <<graph, gpc, buffer, rootIdx, gret>>
  /\ UNCHANGED <<rawVars, libVars>>

\* dfs entered on a GRAY node: the warning with the trimmed path, and return.
DfsCycle ==
  /\ frames # <<>>
  /\ Top.next = 0
  /\ ColorOf(colorMap, Top.root) = GRAY
  /\ warnings' = Append(warnings, TrimSpace(pathAsString(Top.path, graph)))
  /\ frames' = Pop
  /\ UNCHANGED <<graph, gpc, colorMap, buffer, rootIdx, gret>>
  /\ UNCHANGED <<rawVars, libVars>>

\* The leaf branch that writes nothing for a node already BLACK.
DfsLeaf_SkipDone ==
  /\ frames # <<>>
  /\ Top.next = 0
  /\ ColorOf(colorMap, Top.root) # GRAY
  /\ OutEdges(graph, Top.root) = <<>>
  /\ buffer' = IF ColorOf(colorMap, Top.root) = BLACK THEN buffer
               ELSE Append(buffer, pathAsString(Top.path, graph))
  /\ colorMap' = MapSet(colorMap, Top.root, BLACK)
  /\ frames' = Pop
  /\ UNCHANGED <<graph, gpc, warnings, rootIdx, gret>>
  /\ UNCHANGED <<rawVars, libVars>>

\* dfs entered on a node without outgoing edges: the path is written, the
\* node becomes BLACK, and return.
DfsLeaf ==
  /\ frames # <<>>
  /\ Top.next = 0
  /\ ColorOf(colorMap, Top.root) # GRAY
  /\ OutEdges(graph, Top.root) = <<>>
  /\ buffer' = Append(buffer, pathAsString(Top.path, graph))
  /\ colorMap' = MapSet(colorMap, Top.root, BLACK)
  /\ frames' = Pop
  /\ UNCHANGED <<graph, gpc, warnings, rootIdx, gret>>
  /\ UNCHANGED <<rawVars, libVars>>

\* dfs entered on any other node: it becomes GRAY and the loop over its
\* outgoing edges starts.
DfsDescend ==
  /\ frames # <<>>
  /\ Top.next = 0
  /\ ColorOf(colorMap, Top.root) # GRAY
  /\ OutEdges(graph, Top.root) # <<>>
  /\ colorMap' = MapSet(colorMap, Top.root, GRAY)
  /\ frames' = [frames EXCEPT ![Len(frames)].next = 1]
  /\ UNCHANGED <<graph, gpc, buffer, warnings, rootIdx, gret>>
  /\ UNCHANGED <<rawVars, libVars>>

\* One turn of dfs's loop: the recursive call on the edge's destination with
\* the edge appended to the path.
DfsCall ==
  /\ frames # <<>>
  /\ Top.next >= 1
  /\ Top.next <= Len(OutEdges(graph, Top.root))
  /\ LET edge == OutEdges(graph, Top.root)[Top.next]
     IN frames' = Append([frames EXCEPT ![Len(frames)].next = Top.next + 1],
                         [root |-> edge.Dst, path |-> Append(Top.path, edge), next |-> 0])
  /\ UNCHANGED <<graph, gpc, colorMap, buffer, warnings, rootIdx, gret>>
  /\ UNCHANGED <<rawVars, libVars>>

\* The end of dfs's loop that leaves the node GRAY.
DfsReturn_KeepGray ==
  /\ frames # <<>>
  /\ Top.next > Len(OutEdges(graph, Top.root))
  /\ frames' = Pop
  /\ UNCHANGED <<graph, gpc, colorMap, buffer, warnings, rootIdx, gret>>
  /\ UNCHANGED <<rawVars, libVars>>

\* The end of dfs's loop: the node becomes BLACK, and return.
DfsReturn ==
  /\ frames # <<>>
  /\ Top.next > Len(OutEdges(graph, Top.root))
  /\ colorMap' = MapSet(colorMap, Top.root, BLACK)
  /\ frames' = Pop
  /\ UNCHANGED <<graph, gpc, buffer, warnings, rootIdx, gret>>
  /\ UNCHANGED <<rawVars, libVars>>

\* The end of GraphAsText that reports an empty buffer as no activity.
GraphAsTextReturn_EmptyIsNoActivity ==
  /\ gpc = "roots"
  /\ frames = <<>>
  /\ rootIdx > Len(getInDegreeZeroNodes(graph))
  /\ gpc' = "done"
  /\ gret' = [text |-> Concat(buffer),
              err |-> IF buffer = <<>> THEN errNoActivity ELSE NoErr,
              returned |-> TRUE]
  /\ UNCHANGED <<graph, frames, colorMap, buffer, warnings, rootIdx>>
  /\ UNCHANGED <<rawVars, libVars>>

\* The end of GraphAsText's loop: buffer.String() and a nil error.
GraphAsTextReturn ==
  /\ gpc = "roots"
  /\ frames = <<>>
  /\ rootIdx > Len(getInDegreeZeroNodes(graph))
  /\ gpc' = "done"
  /\ gret' = [text |-> Concat(buffer), err |-> NoErr, returned |-> TRUE]
  /\ UNCHANGED <<graph, frames, colorMap, buffer, warnings, rootIdx>>
  /\ UNCHANGED <<rawVars, libVars>>

GraphNext ==
  \/ GraphAsTextStart
  \/ StartRoot
  \/ DfsCycle
  \/ DfsLeaf
  \/ DfsDescend
  \/ DfsCall
  \/ DfsReturn
  \/ GraphAsTextReturn

GraphSpec == GraphInit /\ [][GraphNext]_vars

\* The graphs of at most MaxFairEdges edges with the nodes they touch, and
\* the graphs of the tests.
FairGraphs ==
  {[nodes |-> NodesOf(S), edges |-> EdgesOf(S)] :
     S \in {T \in EdgeChoices : Cardinality(T) <= MaxFairEdges}}
    \cup TestGraphs

GraphFairInit == GraphAsTextCalled(FairGraphs)

\* GraphAsText runs to its end: it is sequential code and no step of it
\* waits for anything, so a step that can be taken is taken.
GraphFairSpec == GraphFairInit /\ [][GraphNext]_vars /\ WF_vars(GraphNext)

(***************************************************************************)
(* Helpers of the properties.                                              *)
(***************************************************************************)
Semicolon == <<";">>

SampleKey(s) == Join(s.Funcs, Semicolon)

\* The positions of p.records whose key is k.
RecordsWithKey(k) == {i \in 1..Len(records) : funcKey(records[i], funcNames) = k}

\* The sum of counter c over the records at the positions I.
RECURSIVE SumCounter(_, _)
SumCounter(I, c) ==
  IF I = {} THEN 0
  ELSE LET i == CHOOSE j \in I : TRUE
       IN records[i].samples[c] + SumCounter(I \ {i}, c)

Returned == pc = "done" /\ ret.returned

ReturnedProfile == Returned /\ ret.err = NoErr /\ ret.profile # NilProfile

\* A step of parse's loop that handed a line to processLine.
LineStep == pc = "parse" /\ nRead' = nRead + 1

(***************************************************************************)
(* C1.  Aggregation is order-independent: in the returned Profile no two   *)
(* Samples have the same joined key; every key of the records has exactly  *)
(* one Sample, whose counts are the element-wise sum of the counts of the  *)
(* records with that key; and aggregating any permutation of the records   *)
(* gives the same keys with the same counts.                               *)
(***************************************************************************)
C1_AggregationOrderIndependent ==
  ReturnedProfile =>
    LET S == ret.profile.Samples
        K == Len(ret.profile.SampleNames)
    IN /\ \A i, j \in 1..Len(S) : SampleKey(S[i]) = SampleKey(S[j]) => i = j
       /\ \A i \in 1..Len(S) : RecordsWithKey(SampleKey(S[i])) # {}
       /\ \A r \in 1..Len(records) :
            \E i \in 1..Len(S) :
              /\ SampleKey(S[i]) = funcKey(records[r], funcNames)
              /\ Len(S[i].Counts) = K
              /\ \A c \in 1..K :
                   S[i].Counts[c] = SumCounter(RecordsWithKey(SampleKey(S[i])), c)
       /\ \A perm \in Orders(1..Len(records)) :
            LET a == aggregate(EmptyMap,
                               [i \in 1..Len(records) |-> records[perm[i]]],
                               funcNames)
            IN /\ a.err = NoErr
               /\ {<<SampleKey(S[i]), S[i].Counts>> : i \in 1..Len(S)}
                    = {<<k, a.map[k].Counts>> : k \in DOMAIN a.map}

\* Of three records, two with one key and different counts were merged into
\* one Sample.
C1_Witness ==
  /\ ReturnedProfile
  /\ Len(records) = 3
  /\ Len(ret.profile.Samples) = 2
  /\ \E i, j \in 1..Len(records) :
       /\ i # j
       /\ funcKey(records[i], funcNames) = funcKey(records[j], funcNames)
       /\ records[i].samples # records[j].samples

(***************************************************************************)
(* C2.  The parser state only moves forward, one state at a time: from     *)
(* ignore on a line starting with Samples, from samplesHeader on the very  *)
(* next line, from samples on a line starting with Locations, from         *)
(* locations on a line starting with Mappings, and never from mappings.    *)
(***************************************************************************)
C2_StateMovesForward ==
  [][/\ state' = state \/ state' = state + 1
     /\ state' \in {ignore, samplesHeader, samples, locations, mappings}
     /\ (state' # state) => LineStep
     /\ (LineStep /\ state = ignore) =>
          (state' = samplesHeader <=> HasPrefix(line', SamplesMarker))
     /\ (LineStep /\ state = samplesHeader) => state' = samples
     /\ (LineStep /\ state = samples) =>
          (state' = locations <=> HasPrefix(line', LocationsMarker))
     /\ (LineStep /\ state = locations) =>
          (state' = mappings <=> HasPrefix(line', MappingsMarker))
     /\ state = mappings => state' = mappings]_vars

\* The parser went through every state and met a Samples line in mappings.
C2_Witness ==
  /\ pc = "parse"
  /\ state = mappings
  /\ HasPrefix(line, SamplesMarker)

(***************************************************************************)
(* C3.  The first error wins: a stored error is never replaced, within a   *)
(* sample line the error of the first unparsable token is the one stored,  *)
(* and ParseRaw returns the stored error with no Profile.                  *)
(***************************************************************************)
\* The tokens of a sample line, counts first, in the order they are parsed.
SampleTokens(l) ==
  splitBySpace(Split(l, ":")[1]) \o splitBySpace(Split(l, ":")[2])

IsSampleLine(l) ==
  /\ ~HasPrefix(l, LocationsMarker)
  /\ ~Contains(l, BytesMarker)
  /\ Len(Split(l, ":")) = 2

C3_FirstErrorWins ==
  [][/\ err # NoErr => err' = err
     /\ (LineStep /\ state = samples /\ err = NoErr /\ IsSampleLine(line')) =>
          LET toks == SampleTokens(line')
              bad  == {i \in 1..Len(toks) : ~ParseInt(toks[i]).ok}
          IN bad # {} =>
               err' = [kind |-> "strconv.ParseInt",
                       num  |-> toks[CHOOSE i \in bad : \A j \in bad : i <= j]]
     /\ (err' # NoErr /\ pc' = "done") =>
          /\ ret'.returned
          /\ ret'.err = err'
          /\ ret'.profile = NilProfile]_vars

\* A token error was stored, the input then ended before locations, and the
\* token error is what ParseRaw returned.
C3_Witness ==
  /\ Returned
  /\ state = samples
  /\ ret.err = [kind |-> "strconv.ParseInt", num |-> <<"x">>]
  /\ ret.profile = NilProfile

(***************************************************************************)
(* C4.  When the input ends with the parser state earlier than locations,  *)
(* ParseRaw fails and returns no Profile; if no line recorded an error,    *)
(* the error is the ended-before-locations error and carries the state     *)
(* reached.                                                                *)
(***************************************************************************)
C4_EndedBeforeLocations ==
  [][(pc = "parse" /\ pc' # "parse" /\ state < locations) =>
       /\ pc' = "done"
       /\ ret'.returned
       /\ ret'.profile = NilProfile
       /\ ret'.err # NoErr
       /\ err = NoErr =>
            ret'.err = [kind |-> "ended before locations", state |-> state]]_vars

\* The input ended in the samples region with no earlier error.
C4_Witness ==
  /\ Returned
  /\ state = samples
  /\ records # <<>>
  /\ ret.profile = NilProfile
  /\ ret.err = [kind |-> "ended before locations", state |-> samples]

(***************************************************************************)
(* C5.  A sample line (not a bytes:[ annotation) whose counts vector has a *)
(* length other than the number of counter names appends no record and     *)
(* leaves an error stored, so that ParseRaw returns an error and no        *)
(* Profile; when the arity error is the first error of the parse it names  *)
(* both lengths.                                                           *)
(***************************************************************************)
\* The counts of a sample line: the tokens before the colon.
CountTokens(l) == splitBySpace(Split(l, ":")[1])

C5_SampleCountMismatch ==
  [][/\ (LineStep /\ state = samples /\ IsSampleLine(line')
          /\ Len(sampleNames) >= 1
          /\ Len(CountTokens(line')) # Len(sampleNames)) =>
          LET toks     == SampleTokens(line')
              mismatch == [kind  |-> "different sample count",
                           count |-> Len(CountTokens(line')),
                           names |-> Len(sampleNames),
                           line  |-> line']
          IN /\ records' = records
             /\ err' # NoErr
             /\ (err = NoErr /\ \A i \in 1..Len(toks) : ParseInt(toks[i]).ok) =>
                  err' = mismatch
             /\ (err = NoErr /\ err'.kind = "different sample count") =>
                  err' = mismatch
     /\ err # NoErr => err' # NoErr
     /\ (err' # NoErr /\ pc' = "done") =>
          ret'.err # NoErr /\ ret'.profile = NilProfile]_vars

\* One count on a line under two counter names: ParseRaw returned the arity
\* error naming 1 and 2.
C5_Witness ==
  /\ Returned
  /\ ret.profile = NilProfile
  /\ ret.err = [kind  |-> "different sample count", count |-> 1, names |-> 2,
                line  |-> <<"7", ":", " ", "1">>]

(***************************************************************************)
(* C6.  A funcID that no location line defined never makes ParseRaw fail:  *)
(* when parsing stored no error and the counter names are valid, a Profile *)
(* is returned, and the Sample made from a record carries                  *)
(* missing-function-<id> exactly at the positions of the undefined ids and *)
(* the defined name at every other position.                               *)
(***************************************************************************)
\* The record at position r is the first of p.records with its key.
FirstWithKey(r) ==
  \A q \in 1..(r - 1) :
    funcKey(records[q], funcNames) # funcKey(records[r], funcNames)

C6_MissingFunction ==
  /\ (pc = "done" /\ err = NoErr /\ NewProfile(sampleNames).err = NoErr) =>
       ReturnedProfile
  /\ ReturnedProfile =>
       \A r \in 1..Len(records) :
         FirstWithKey(r) =>
           \E i \in 1..Len(ret.profile.Samples) :
             LET F == ret.profile.Samples[i].Funcs
                 stack == records[r].stack
             IN /\ Len(F) = Len(stack)
                /\ \A pos \in 1..Len(stack) :
                     F[Len(stack) + 1 - pos] =
                       IF stack[pos] \in DOMAIN funcNames
                       THEN funcNames[stack[pos]]
                       ELSE MissingFunction \o FormatInt(stack[pos])

\* The dump of TestParseMissingLocation: stack 1 2 with only 1 defined.
C6_Witness ==
  /\ ReturnedProfile
  /\ funcNames = MapSet(EmptyMap, 1, <<"f">>)
  /\ \E i \in 1..Len(ret.profile.Samples) :
       ret.profile.Samples[i].Funcs = <<MissingFunction \o <<"2">>, <<"f">>>>

(***************************************************************************)
(* C7.  The names of a record are the resolutions of its funcIDs in        *)
(* reverse order: the Sample created from a record has as many names as    *)
(* the record has ids, and name i is the resolution of id len+1-i (counted *)
(* from 1); every record's Sample is stored under the join of these names. *)
(***************************************************************************)
ParentFirst(r) ==
  [i \in 1..Len(r.stack) |->
     IF r.stack[Len(r.stack) + 1 - i] \in DOMAIN funcNames
     THEN funcNames[r.stack[Len(r.stack) + 1 - i]]
     ELSE MissingFunction \o FormatInt(r.stack[Len(r.stack) + 1 - i])]

C7_ParentFirstNames ==
  (pc \in {"aggregate", "done"}) =>
    \A j \in 1..Len(records) :
      j < idx =>
        LET want == ParentFirst(records[j])
            key  == Join(want, Semicolon)
        IN /\ key \in DOMAIN sampleMap
           /\ SampleKey(sampleMap[key]) = key
           /\ (\A q \in 1..(j - 1) : Join(ParentFirst(records[q]), Semicolon) # key) =>
                /\ sampleMap[key].Funcs = want
                /\ Len(sampleMap[key].Funcs) = Len(records[j].stack)
                /\ ReturnedProfile =>
                     \E i \in 1..Len(ret.profile.Samples) :
                       ret.profile.Samples[i].Funcs = want

\* Leaf-first ids 1 2 became the parent-first names of 2 and of 1.
C7_Witness ==
  /\ ReturnedProfile
  /\ funcNames = MapSet(MapSet(EmptyMap, 1, <<"f">>), 2, <<"f", ";", "f">>)
  /\ records = <<[samples |-> <<1, 2>>, stack |-> <<1, 2>>]>>
  /\ ret.profile.Samples[1].Funcs = <<<<"f", ";", "f">>, <<"f">>>>

(***************************************************************************)
(* C8.  Every Sample of the aggregation, after every step of it and in the *)
(* Profile returned, has as many counts as the Profile has counter names,  *)
(* and no counter name of the Profile is empty.                            *)
(***************************************************************************)
C8_CountsMatchNames ==
  /\ profile # NilProfile =>
       /\ Len(profile.SampleNames) >= 1
       /\ \A i \in 1..Len(profile.SampleNames) : profile.SampleNames[i] # <<>>
       /\ \A k \in DOMAIN sampleMap :
            Len(sampleMap[k].Counts) = Len(profile.SampleNames)
  /\ ReturnedProfile =>
       /\ \A i \in 1..Len(ret.profile.SampleNames) : ret.profile.SampleNames[i] # <<>>
       /\ \A i \in 1..Len(ret.profile.Samples) :
            Len(ret.profile.Samples[i].Counts) = Len(ret.profile.SampleNames)

\* One Sample was inserted and a second record was added into it.
C8_Witness ==
  /\ pc = "aggregate"
  /\ idx = 3
  /\ Cardinality(DOMAIN sampleMap) = 1
  /\ \A k \in DOMAIN sampleMap : sampleMap[k].Counts = <<4, 6>>

(***************************************************************************)
(* C9.  In the locations region a line is a malformed-location error       *)
(* exactly when it has fewer than 2 fields; a line with exactly 2 fields   *)
(* records no name and no error; a line with 3 or more fields is accepted  *)
(* without error.                                                          *)
(***************************************************************************)
LocationStep ==
  LineStep /\ state = locations /\ ~HasPrefix(line', MappingsMarker)

C9_MalformedLocationBelowTwoFields ==
  [][LocationStep =>
       LET n == Len(splitBySpace(line'))
       IN /\ err = NoErr =>
               (err' = [kind |-> "malformed location line", line |-> line'] <=> n < 2)
          /\ n = 2 => (funcNames' = funcNames /\ err' = err)
          /\ n >= 3 => err' = err]_vars

(***************************************************************************)
(* C10.  For an accepted location line with a name, the name recorded for  *)
(* its funcid is the third field, or the fourth when the third starts with *)
(* M=; it replaces any earlier name of that funcid and no other entry      *)
(* changes.                                                                *)
(***************************************************************************)
C10_LocationName ==
  [][LocationStep =>
       LET parts == splitBySpace(line')
           id    == ParseInt(TrimSuffix(parts[1], <<":">>))
       IN (Len(parts) >= 4 /\ id.ok) =>
            /\ err' = err
            /\ DOMAIN funcNames' = DOMAIN funcNames \cup {id.v}
            /\ funcNames'[id.v] =
                 IF HasPrefix(parts[3], MPrefix) THEN parts[4] ELSE parts[3]
            /\ \A other \in DOMAIN funcNames :
                 other # id.v => funcNames'[other] = funcNames[other]]_vars

\* Both M= lines were read: id 2 has g and id 1 has h, the fourth fields.
C10_Witness ==
  /\ state = locations
  /\ err = NoErr
  /\ line = <<"1", ":", " ", "0", "x", " ", "M", "=", "1", " ", "h">>
  /\ funcNames = MapSet(MapSet(EmptyMap, 2, <<"g">>), 1, <<"h">>)

(***************************************************************************)
(* C11.  A line of the samples region (one handed to addSample, so not a   *)
(* line starting with Locations) that contains bytes:[ is skipped with no  *)
(* effect at all: it adds no record, stores no error and leaves the state, *)
(* the counter names and the funcID map as they were, whatever else the    *)
(* line contains.                                                          *)
(***************************************************************************)
HasBytesMarker(l) ==
  \E i \in 1..Len(l) :
    /\ i + 6 <= Len(l)
    /\ SubSeq(l, i, i + 6) = <<"b", "y", "t", "e", "s", ":", "[">>

C11_BytesLineSkipped ==
  [][(/\ LineStep
      /\ state = samples
      /\ ~HasPrefix(line', LocationsMarker)
      /\ HasBytesMarker(line')) =>
        /\ records' = records
        /\ err' = err
        /\ state' = state
        /\ sampleNames' = sampleNames
        /\ funcNames' = funcNames]_vars

\* After the header and one accepted sample line, a line holding counts, a
\* colon and bytes:[ was read: still one record and no error.
C11_Witness ==
  /\ pc = "parse"
  /\ state = samples
  /\ nRead = 4
  /\ line = <<"1"," ","2",":"," ","b","y","t","e","s",":","["," ","x">>
  /\ Len(records) = 1
  /\ err = NoErr

(***************************************************************************)
(* C12.  A dump whose header line holds an empty counter-name token (two   *)
(* names separated by a double space) makes ParseRaw fail with the "empty  *)
(* sample names" error.                                                    *)
(***************************************************************************)
HasEmptySampleName == \E i \in 1..Len(sampleNames) : sampleNames[i] = <<>>

C12_EmptyNameAlwaysReported ==
  (Returned /\ HasEmptySampleName) => ret.err = [kind |-> "empty sample names"]

\* C12 as the code has it: ParseRaw fails, with the error parsing stored when
\* there is one (the dump ended before Locations, or a sample line has another
\* number of counts than the header has tokens) and with "empty sample names"
\* otherwise.
C12_EmptyNameFails ==
  (Returned /\ HasEmptySampleName) =>
    /\ ret.profile = NilProfile
    /\ ret.err # NoErr
    /\ ret.err = IF err # NoErr THEN err ELSE [kind |-> "empty sample names"]

\* The header a, empty, b with one sample line of three counts, up to
\* Locations: ParseRaw returned the error of NewProfile.
C12_Witness ==
  /\ Returned
  /\ sampleNames = <<<<"a">>, <<>>, <<"b">>>>
  /\ Len(records) = 1
  /\ err = NoErr
  /\ ret.err = [kind |-> "empty sample names"]

(***************************************************************************)
(* C13.  NewProfile rejects the empty list of counter names with the "no   *)
(* samples" error and any list holding an empty name with the distinct     *)
(* "empty sample names" error, both without a Profile; any other list      *)
(* gives a Profile holding exactly those names in order and no samples.    *)
(***************************************************************************)
C13_NewProfile ==
  call.fn = "NewProfile" =>
    LET names == call.names
    IN /\ Len(names) = 0 =>
            call.err = [kind |-> "no samples"] /\ call.profile = [nil |-> TRUE]
       /\ (Len(names) > 0 /\ \E i \in 1..Len(names) : names[i] = <<>>) =>
            call.err = [kind |-> "empty sample names"] /\ call.profile = [nil |-> TRUE]
       /\ (Len(names) > 0 /\ \A i \in 1..Len(names) : names[i] # <<>>) =>
            /\ call.err = [kind |-> "nil"]
            /\ call.profile = [SampleNames |-> names, Samples |-> <<>>]

\* NewProfile was called with a, empty, b and returned the error of the
\* empty name.
C13_Witness ==
  /\ call.fn = "NewProfile"
  /\ call.names = <<<<"a">>, <<>>, <<"b">>>>
  /\ call.err = [kind |-> "empty sample names"]
  /\ call.profile = NilProfile

(***************************************************************************)
(* C14.  Sample.Add with a count list of the sample's own length adds it   *)
(* component-wise and returns no error; with a list of another length it   *)
(* returns an error and leaves the sample's counts unchanged.              *)
(***************************************************************************)
C14_SampleAdd ==
  call.fn = "Add" =>
    LET old == call.before.Counts
        new == call.sample.Counts
    IN /\ call.sample.Funcs = call.before.Funcs
       /\ Len(call.counts) = Len(old) =>
            /\ call.err = [kind |-> "nil"]
            /\ Len(new) = Len(old)
            /\ \A i \in 1..Len(old) : new[i] = old[i] + call.counts[i]
       /\ Len(call.counts) # Len(old) =>
            /\ call.err # [kind |-> "nil"]
            /\ new = old

\* A second Add, one count short, was refused on a sample whose counts the
\* first Add had changed.
C14_Witness ==
  /\ call.fn = "Add"
  /\ call.adds = 2
  /\ call.before.Counts = <<117, 0>>
  /\ call.counts = <<120>>
  /\ call.err # NoErr
  /\ call.sample.Counts = <<117, 0>>

(***************************************************************************)
(* C15.  ToFlameInput on a Profile and a counter index writes exactly one  *)
(* line per Sample, in the order of Profile.Samples: the names joined by   *)
(* ";", one space, the decimal value of the selected counter, a newline;   *)
(* nothing precedes the first line or follows the last.                    *)
(***************************************************************************)
\* d is the decimal form of n: digits with a minus sign for a negative n, no
\* plus sign and no leading zero.
IsDecimalOf(d, n) ==
  /\ ParseInt(d).ok
  /\ ParseInt(d).v = n
  /\ d[1] # "+"
  /\ (Len(d) > 1 /\ d[1] = "0") => FALSE
  /\ (Len(d) > 1 /\ d[1] = "-") => d[2] # "0"

C15_OneLinePerSample ==
  call.fn = "ToFlameInput" =>
    LET S     == call.profile.Samples
        lines == Split(call.out, "\n")
    IN /\ call.err = [kind |-> "nil"]
       /\ Len(lines) = Len(S) + 1
       /\ lines[Len(lines)] = <<>>
       /\ \A i \in 1..Len(S) :
            LET head == Join(S[i].Funcs, <<";">>) \o <<" ">>
            IN /\ HasPrefix(lines[i], head)
               /\ IsDecimalOf(SubSeq(lines[i], Len(head) + 1, Len(lines[i])),
                              S[i].Counts[call.sampleIndex + 1])

\* Two Samples of two counters rendered with index 1: two lines in the order
\* of the Samples, each with its second count.
C15_Witness ==
  /\ call.fn = "ToFlameInput"
  /\ call.sampleIndex = 1
  /\ Len(call.profile.Samples) = 2
  /\ call.profile.Samples[1].Counts = <<0, 120>>
  /\ call.profile.Samples[2].Counts = <<120, -3>>
  /\ call.out = <<"f", ";", "g", " ", "h", " ", "1", "2", "0", "\n",
                  ";", "m", " ", "-", "3", "\n">>

(***************************************************************************)
(* C16.  Round trip of a serialized line: for every non-empty list of      *)
(* names free of ";" and newline and every integer weight, cutting the     *)
(* line at its last space and the part before it at every ";" gives back   *)
(* the names and the weight.                                               *)
(***************************************************************************)
LastSpace(l) == CHOOSE i \in 1..Len(l) : l[i] = " " /\ \A j \in (i + 1)..Len(l) : l[j] # " "

NoSeparatorIn(names) ==
  \A i \in 1..Len(names) : \A j \in 1..Len(names[i]) : names[i][j] \notin {";", "\n"}

\* The names and the weight read back from a line without its newline.
ReadBack(l) ==
  [names  |-> Split(SubSeq(l, 1, LastSpace(l) - 1), ";"),
   weight |-> ParseInt(SubSeq(l, LastSpace(l) + 1, Len(l)))]

\* The labels of the nodes of a path in the graph dag, and its weight.
LabelsOf(path, dag) ==
  [k \in 1..(Len(path) + 1) |->
     getFormattedFunctionLabel(
       Lookup(dag, IF k <= Len(path) THEN path[k].Src ELSE path[Len(path)].Dst))]

RECURSIVE WeightOf(_)
WeightOf(path) ==
  IF path = <<>> THEN 0
  ELSE (IF "weight" \in DOMAIN Head(path).Attrs
        THEN ParseInt(Head(path).Attrs["weight"]).v ELSE 0) + WeightOf(Tail(path))

C16_RoundTrip ==
  /\ call.fn = "ToFlameInput" =>
       LET S     == call.profile.Samples
           lines == Split(call.out, "\n")
       IN \A i \in 1..Len(S) :
            (Len(S[i].Funcs) >= 1 /\ NoSeparatorIn(S[i].Funcs)) =>
              /\ ReadBack(lines[i]).names = S[i].Funcs
              /\ ReadBack(lines[i]).weight.ok
              /\ ReadBack(lines[i]).weight.v = S[i].Counts[call.sampleIndex + 1]
  /\ (call.fn = "pathAsString" /\ Len(call.path) >= 1) =>
       LET lines == Split(call.out, "\n")
       IN /\ Len(lines) = 2
          /\ lines[2] = <<>>
          /\ NoSeparatorIn(LabelsOf(call.path, call.dag)) =>
               /\ ReadBack(lines[1]).names = LabelsOf(call.path, call.dag)
               /\ ReadBack(lines[1]).weight.ok
               /\ ReadBack(lines[1]).weight.v = WeightOf(call.path)

\* A line whose second name holds a space and whose weight is negative was
\* read back.
C16_Witness ==
  /\ call.fn = "ToFlameInput"
  /\ call.sampleIndex = 0
  /\ Len(call.profile.Samples) = 1
  /\ call.profile.Samples[1].Funcs = <<<<"f">>, <<"g", " ", "h">>>>
  /\ call.out = <<"f", ";", "g", " ", "h", " ", "-", "3", "\n">>
  /\ ReadBack(<<"f", ";", "g", " ", "h", " ", "-", "3">>) =
       [names |-> <<<<"f">>, <<"g", " ", "h">>>>, weight |-> [ok |-> TRUE, v |-> -3]]

(***************************************************************************)
(* C17.  For an acyclic graph every edge path from a root (a node no edge  *)
(* ends at) to a node without outgoing edges is emitted exactly once, as   *)
(* one line holding the labels of the path's nodes in traversal order and  *)
(* the sum of the weights of its edges; for the edges N1->N2 (1),          *)
(* N1->N3 (2), N4->N5 (1), N4->N6 (4), N6->N5 (4) the output is the lines  *)
(* N1;N2 1, N1;N3 2, N4;N5 1 and N4;N6;N5 8.                               *)
(***************************************************************************)
EdgeIdx == 1..Len(graph.edges)

NodeNames == {graph.nodes[i].Name : i \in 1..Len(graph.nodes)}

\* The pairs joined by a chain of at most k + 1 pairs of R.
RECURSIVE Chains(_, _)
Chains(R, k) ==
  IF k = 0 THEN R
  ELSE Chains(R \cup {<<q[1][1], q[2][2]>> : q \in {c \in R \X R : c[1][2] = c[2][1]}},
              k - 1)

Acyclic ==
  LET E == {<<graph.edges[i].Src, graph.edges[i].Dst>> : i \in EdgeIdx}
  IN \A pair \in Chains(E, Len(graph.edges)) : pair[1] # pair[2]

RootNames ==
  {n \in NodeNames : Head(n) = "N" /\ \A i \in EdgeIdx : graph.edges[i].Dst # n}

IsolatedRoots == {n \in RootNames : \A i \in EdgeIdx : graph.edges[i].Src # n}

\* The edge paths, as positions in graph.edges, from n to a node without
\* outgoing edges (of an acyclic graph).
RECURSIVE PathsFrom(_)
PathsFrom(n) ==
  LET out == {i \in EdgeIdx : graph.edges[i].Src = n}
  IN IF out = {} THEN {<<>>}
     ELSE UNION {{<<i>> \o p : p \in PathsFrom(graph.edges[i].Dst)} : i \in out}

RootLeafPaths == (UNION {PathsFrom(r) : r \in RootNames}) \ {<<>>}

NodeLabel(name) == getFormattedFunctionLabel(Lookup(graph, name))

EdgeWeight(i) ==
  IF "weight" \in DOMAIN graph.edges[i].Attrs
  THEN ParseInt(graph.edges[i].Attrs["weight"]).v ELSE 0

RECURSIVE PathWeight(_)
PathWeight(p) == IF p = <<>> THEN 0 ELSE EdgeWeight(Head(p)) + PathWeight(Tail(p))

\* The line of a path of at least one edge.
LineOf(p) ==
  Join([k \in 1..(Len(p) + 1) |->
          IF k <= Len(p) THEN NodeLabel(graph.edges[p[k]].Src)
          ELSE NodeLabel(graph.edges[p[Len(p)]].Dst)], <<";">>)
    \o <<" ">> \o FormatInt(PathWeight(p)) \o <<"\n">>

GraphReturned == gpc = "done" /\ gret.returned

TestGraphAsTextOutput ==
  <<"N", "1", ";", "N", "2", " ", "1", "\n", "N", "1", ";", "N", "3", " ",
      "2", "\n", "N", "4", ";", "N", "5", " ", "1", "\n", "N", "4", ";", "N",
      "6", ";", "N", "5", " ", "8", "\n">>

C17_AcyclicPathsOnce ==
  (GraphReturned /\ gret.err = NoErr /\ Acyclic) =>
    /\ \A p \in RootLeafPaths :
         Cardinality({k \in DOMAIN buffer : buffer[k] = LineOf(p)})
           = Cardinality({q \in RootLeafPaths : LineOf(q) = LineOf(p)})
    /\ Len(buffer) = Cardinality(RootLeafPaths) + Cardinality(IsolatedRoots)
    /\ graph = TestGraphAsTextInput => gret.text = TestGraphAsTextOutput

\* GraphAsText returned the four lines for the six nodes and five edges of
\* the example.
C17_Witness ==
  /\ GraphReturned
  /\ graph = TestGraphAsTextInput
  /\ Len(buffer) = 4
  /\ gret.text = TestGraphAsTextOutput

(***************************************************************************)
(* C18.  For every finite graph, also one with cycles reachable from a     *)
(* root, the traversal from every root terminates: GraphAsText returns,    *)
(* and meanwhile no node is entered by more calls in progress than the     *)
(* one that made it GRAY plus one.  A branch that runs into a node already *)
(* on the current path contributes no output line: the call returns at     *)
(* once and the buffer is as before.                                       *)
(***************************************************************************)
\* dfs was just called on a node that an enclosing call of dfs is working on.
EntersNodeOnPath ==
  /\ frames # <<>>
  /\ Top.next = 0
  /\ \E k \in 1..(Len(frames) - 1) : frames[k].root = Top.root

C18_TerminatesWithoutCycleLines ==
  /\ <>(gpc = "done" /\ gret.returned /\ frames = <<>>)
  /\ [](Len(frames) <= Cardinality(NodeNames) + 1)
  /\ [][EntersNodeOnPath =>
          /\ buffer' = buffer
          /\ frames' = SubSeq(frames, 1, Len(frames) - 1)]_vars

\* GraphAsText returned for a root whose only branch closes a cycle: a
\* warning and an empty text.
C18_Witness ==
  /\ GraphReturned
  /\ gret.err = NoErr
  /\ ~Acyclic
  /\ Len(graph.edges) = 2
  /\ Len(warnings) = 1
  /\ buffer = <<>>
  /\ gret.text = <<>>

(***************************************************************************)
(* C19.  Each time dfs is entered on a node that is in progress (GRAY,     *)
(* which is the case exactly when the node is on the current path) it      *)
(* logs exactly one cycle warning carrying the path taken so far, appends  *)
(* nothing to the output, changes no colour, and returns to its caller,    *)
(* whose loop over the remaining edges and the loop over the remaining     *)
(* roots are where they were.                                              *)
(***************************************************************************)
EntersGrayNode ==
  /\ frames # <<>>
  /\ Top.next = 0
  /\ ColorOf(colorMap, Top.root) = GRAY

\* A path of edges as text: the labels of its nodes joined by ";", a space
\* and the sum of its weights.
PathText(path) ==
  Join([k \in 1..(Len(path) + 1) |->
          IF k <= Len(path) THEN NodeLabel(path[k].Src)
          ELSE NodeLabel(path[Len(path)].Dst)], <<";">>)
    \o <<" ">> \o FormatInt(WeightOf(path))

C19_CycleWarning ==
  [][/\ (frames # <<>> /\ Top.next = 0) => (EntersGrayNode <=> EntersNodeOnPath)
     /\ EntersGrayNode =>
          /\ Top.path # <<>>
          /\ warnings' = Append(warnings, PathText(Top.path))
          /\ buffer' = buffer
          /\ colorMap' = colorMap
          /\ frames' = SubSeq(frames, 1, Len(frames) - 1)
          /\ rootIdx' = rootIdx
          /\ gpc' = gpc
     /\ ~EntersGrayNode => warnings' = warnings]_vars

\* The first edge out of N2 led back to N2: one warning with that path, and
\* afterwards the lines of the sibling edge to N3 and of the second root N4.
C19_Witness ==
  /\ GraphReturned
  /\ warnings = <<<<"a", ";", "b", " ", "c", ";", "b", " ", "c", " ", "6">>>>
  /\ buffer = <<<<"a", ";", "b", " ", "c", ";", "c", " ", "7", "\n">>,
                <<"d", ";", "c", " ", "1", "1", "\n">>>>

(***************************************************************************)
(* C20.  A node marked done stays done across the traversals of separate   *)
(* roots, so a subgraph shared by several roots or branches is traversed   *)
(* and emitted only once: reaching a done node again produces no further   *)
(* output line and leaves the node done.                                   *)
(***************************************************************************)
EntersDoneNode ==
  /\ frames # <<>>
  /\ Top.next = 0
  /\ ColorOf(colorMap, Top.root) = BLACK

C20_DoneNodeNotEmittedAgain ==
  [][EntersDoneNode => (buffer' = buffer /\ colorMap' = colorMap)]_vars

\* C20 as the code has it: the colours persist from one root to the next,
\* but dfs tests only for GRAY, so a done node reached again is traversed
\* again: a done leaf gets one more line, for the new path, and a done node
\* with outgoing edges becomes GRAY again and its loop starts over.
C20_DoneNodeTraversedAgain ==
  [][/\ (frames = <<>> /\ frames' # <<>>) => colorMap' = colorMap
     /\ (EntersDoneNode /\ OutEdges(graph, Top.root) = <<>>) =>
          /\ buffer' = Append(buffer, PathText(Top.path) \o <<"\n">>)
          /\ colorMap' = colorMap
          /\ frames' = SubSeq(frames, 1, Len(frames) - 1)
     /\ (EntersDoneNode /\ OutEdges(graph, Top.root) # <<>>) =>
          /\ buffer' = buffer
          /\ ColorOf(colorMap', Top.root) = GRAY
          /\ Len(frames') = Len(frames)
          /\ frames'[Len(frames)].next = 1]_vars

\* Two roots with an edge to the same leaf: the leaf was done after the
\* first root and was written again, with its own path, for the second.
C20_Witness ==
  /\ GraphReturned
  /\ Len(graph.edges) = 2
  /\ ColorOf(colorMap, <<"N", "3">>) = BLACK
  /\ buffer = <<<<"a", ";", "c", " ", "5", "\n">>,
                <<"b", " ", "c", ";", "c", " ", "7", "\n">>>>

(***************************************************************************)
(* C21.  GraphAsText on a graph with zero edges returns the "no activity"  *)
(* error and empty text without running any traversal (no call of dfs, no  *)
(* colour, no write, no warning); on a graph with at least one edge it     *)
(* never returns that error.                                               *)
(***************************************************************************)
C21_NoActivity ==
  /\ GraphReturned =>
       (gret.err = [kind |-> "no activity"] <=> Len(graph.edges) = 0)
  /\ (GraphReturned /\ Len(graph.edges) = 0) => gret.text = <<>>
  /\ (gpc # "start" /\ Len(graph.edges) = 0) =>
       /\ gpc = "done"
       /\ frames = <<>>
       /\ DOMAIN colorMap = {}
       /\ buffer = <<>>
       /\ warnings = <<>>
       /\ rootIdx = 0
  /\ (GraphReturned /\ Len(graph.edges) > 0) => gret.err = [kind |-> "nil"]

\* GraphAsText returned the error for the graph of five nodes, four of them
\* root candidates, and no edge.
C21_Witness ==
  /\ GraphReturned
  /\ Len(graph.nodes) = 5
  /\ graph.edges = <<>>
  /\ gret = [text |-> <<>>, err |-> [kind |-> "no activity"], returned |-> TRUE]

(***************************************************************************)
(* C22.  The weight written for a path is the sum of the integer weight    *)
(* attributes of its edges, an edge without the attribute counting 0; a    *)
(* path whose edges all lack a weight is written with weight 0, and the    *)
(* empty path is written as 0 and a newline.                               *)
(***************************************************************************)
\* The text between the last space of a line (its start when it has no
\* space) and its newline.
WrittenWeight(out) ==
  LET l == SubSeq(out, 1, Len(out) - 1)
  IN IF \E i \in 1..Len(l) : l[i] = " "
     THEN SubSeq(l, LastSpace(l) + 1, Len(l)) ELSE l

C22_PathWeight ==
  call.fn = "pathAsString" =>
    /\ call.out # <<>>
    /\ call.out[Len(call.out)] = "\n"
    /\ IsDecimalOf(WrittenWeight(call.out), WeightOf(call.path))
    /\ (\A k \in 1..Len(call.path) : "weight" \notin DOMAIN call.path[k].Attrs) =>
         WrittenWeight(call.out) = <<"0">>
    /\ call.path = <<>> => call.out = <<"0", "\n">>

\* The path N1, N3, N4 with the weights 5 and 10 was written with 15.
C22_Witness ==
  /\ call.fn = "pathAsString"
  /\ Len(call.path) = 2
  /\ call.path[1].Attrs = Weight(<<"5">>)
  /\ call.path[2].Attrs = Weight(<<"1", "0">>)
  /\ call.out = <<"a", ";", "c", ";", "d", " ", "1", "5", "\n">>

(***************************************************************************)
(* C23.  getInDegreeZeroNodes returns exactly the nodes that are the       *)
(* destination of no edge and whose name starts with N, each once, in the  *)
(* graph's node order; a node with another name (a cluster parsed as a     *)
(* node) is never a root candidate, and a graph without nodes has no       *)
(* roots.  These are the nodes GraphAsText starts dfs on, in this order.   *)
(***************************************************************************)
\* The position of a name in graph.nodes.
NodeIndex(name) == CHOOSE i \in 1..Len(graph.nodes) : graph.nodes[i].Name = name

C23_InDegreeZeroNodes ==
  LET roots == getInDegreeZeroNodes(graph)
  IN /\ {roots[i] : i \in 1..Len(roots)} = RootNames
     /\ \A i, j \in 1..Len(roots) : i < j => NodeIndex(roots[i]) < NodeIndex(roots[j])
     /\ \A i \in 1..Len(roots) : roots[i][1] = "N"
     /\ graph.nodes = <<>> => roots = <<>>
     /\ frames # <<>> =>
          /\ rootIdx - 1 \in 1..Len(roots)
          /\ frames[1].root = roots[rootIdx - 1]
          /\ frames[1].path = <<>>
     /\ (GraphReturned /\ gret.err = [kind |-> "nil"]) => rootIdx = Len(roots) + 1

\* The cluster L, N1..N4 and the edge N2 -> N3: dfs ran on N1, N2 and N4, in
\* this order, and neither on L nor on N3.
C23_Witness ==
  /\ GraphReturned
  /\ Len(graph.nodes) = 5
  /\ graph.nodes[1].Name = <<"L">>
  /\ Len(graph.edges) = 1
  /\ rootIdx = 4
  /\ buffer = <<<<"0", "\n">>, <<"b", " ", "c", ";", "c", " ", "7", "\n">>, <<"0", "\n">>>>

(***************************************************************************)
(* C24.  Every line the flattener appends has the folded-stack shape       *)
(* name1;...;nameN <integer> newline with N >= 1: at least one node label, *)
(* one space before a decimal integer, and the newline at the end; this    *)
(* for every graph with at least one edge, isolated roots included.        *)
(* dfs on a root without outgoing edges calls pathAsString with the empty  *)
(* path, which writes the line "0" with no label and no space.             *)
(***************************************************************************)
FoldedStackShape(l) ==
  /\ Len(l) >= 3
  /\ l[Len(l)] = "\n"
  /\ \E i \in 1..(Len(l) - 1) : l[i] = " "
  /\ LET body == SubSeq(l, 1, Len(l) - 1)
     IN /\ ParseInt(SubSeq(body, LastSpace(body) + 1, Len(body))).ok
        /\ Len(Split(SubSeq(body, 1, LastSpace(body) - 1), ";")) >= 1

C24_FoldedStackLines ==
  Len(graph.edges) >= 1 => \A k \in 1..Len(buffer) : FoldedStackShape(buffer[k])

(***************************************************************************)
(* C25.  SelectSample returns, for every argument list and every non-empty *)
(* list of counter names, an index i with 0 <= i < len(names).  It returns *)
(* 0 when no argument selects anything: no recognised selector, a          *)
(* -sample_index without following argument or followed by something that  *)
(* is not a number, is negative or is >= len(names), a name selector whose *)
(* counter is not among the names.  Otherwise the last argument that       *)
(* selects decides: -alloc_objects, -alloc_space, -inuse_objects and       *)
(* -inuse_space the index of the counter of that name, -sample_index its   *)
(* number.                                                                 *)
(***************************************************************************)
\* The counter a name selector stands for; the empty name for other words.
CounterOf(arg) ==
  IF arg = <<"-", "i", "n", "u", "s", "e", "_", "s", "p", "a", "c", "e">> THEN <<"i", "n", "u", "s", "e", "_", "s", "p", "a", "c", "e", "/", "b", "y", "t", "e", "s">>
  ELSE IF arg = <<"-", "i", "n", "u", "s", "e", "_", "o", "b", "j", "e", "c", "t", "s">> THEN <<"i", "n", "u", "s", "e", "_", "o", "b", "j", "e", "c", "t", "s", "/", "c", "o", "u", "n", "t">>
  ELSE IF arg = <<"-", "a", "l", "l", "o", "c", "_", "s", "p", "a", "c", "e">> THEN <<"a", "l", "l", "o", "c", "_", "s", "p", "a", "c", "e", "/", "b", "y", "t", "e", "s">>
  ELSE IF arg = <<"-", "a", "l", "l", "o", "c", "_", "o", "b", "j", "e", "c", "t", "s">> THEN <<"a", "l", "l", "o", "c", "_", "o", "b", "j", "e", "c", "t", "s", "/", "c", "o", "u", "n", "t">>
  ELSE <<>>

\* The positions of names the argument i of the call selects by name.
NameHits(i) ==
  {k \in 1..Len(call.names) :
     CounterOf(call.args[i]) # <<>> /\ call.names[k] = CounterOf(call.args[i])}

\* The argument i is -sample_index followed by an index of names.
IndexArg(i) ==
  /\ call.args[i] = <<"-", "s", "a", "m", "p", "l", "e", "_", "i", "n", "d", "e", "x">>
  /\ i < Len(call.args)
  /\ ParseInt(call.args[i + 1]).ok
  /\ ParseInt(call.args[i + 1]).v \in 0..(Len(call.names) - 1)

SetMax(S) == CHOOSE x \in S : \A y \in S : y <= x

FurtherSamplesStep ==
  LineStep /\ state \in {samples, locations, mappings} /\ HasPrefix(line', SamplesMarker)

GrayNodes == {n \in NodeNames : ColorOf(colorMap, n) = GRAY}

\* The calls of dfs that are inside their loop over the outgoing edges.
InLoop == {k \in 1..Len(frames) : frames[k].next >= 1}

\* The nodes a path passes, its end included; for the nil path, the root.
NodesOn(f) ==
  [k \in 1..(Len(f.path) + 1) |-> IF k <= Len(f.path) THEN f.path[k].Src ELSE f.root]

C27_GrayIsRecursionPath ==
  /\ GrayNodes = {frames[k].root : k \in InLoop}
  /\ \A j, k \in InLoop : frames[j].root = frames[k].root => j = k
  /\ \A k \in InLoop : OutEdges(graph, frames[k].root) # <<>>
  /\ \A k \in 1..Len(frames) :
       /\ k < Len(frames) => k \in InLoop
       /\ NodesOn(frames[k]) = [j \in 1..k |-> frames[j].root]
       /\ (k > 1 /\ Len(frames[k].path) = k - 1) => frames[k].path[k - 1].Dst = frames[k].root
  /\ (frames # <<>> /\ ColorOf(colorMap, Top.root) # GRAY) =>
       \A i, j \in 1..Len(NodesOn(Top)) : NodesOn(Top)[i] = NodesOn(Top)[j] => i = j
  /\ GraphReturned =>
       /\ frames = <<>>
       /\ GrayNodes = {}
       /\ \A n \in DOMAIN colorMap : colorMap[n] = BLACK
       /\ gret.err = [kind |-> "nil"] =>
            /\ RootNames \subseteq DOMAIN colorMap
            /\ \A i \in EdgeIdx :
                 graph.edges[i].Src \in DOMAIN colorMap => graph.edges[i].Dst \in DOMAIN colorMap

\* dfs entered on a node of the path, three calls deep: three nodes are GRAY
\* and the node entered is one of them.
C27_Witness ==
  /\ Len(frames) = 4
  /\ Top.next = 0
  /\ Cardinality(GrayNodes) = 3
  /\ Top.root = frames[2].root
  /\ buffer # <<>>

(***************************************************************************)
(* C28.  Aggregation conserves totals: for every counter, the sum of its   *)
(* counts over the Samples of the returned Profile is the sum of its       *)
(* counts over the records the parser accepted, and there are as many      *)
(* Samples as distinct joined name keys among the records.  The same holds *)
(* of the map and the records already taken at every turn of the loop.     *)
(***************************************************************************)
\* The sum of counter c over a list of Samples.
RECURSIVE SumSamples(_, _)
SumSamples(S, c) ==
  IF S = <<>> THEN 0 ELSE Head(S).Counts[c] + SumSamples(Tail(S), c)

\* The sum of counter c over the Samples of the map m.
RECURSIVE SumMap(_, _, _)
SumMap(m, K, c) ==
  IF K = {} THEN 0
  ELSE LET k == CHOOSE x \in K : TRUE
       IN m[k].Counts[c] + SumMap(m, K \ {k}, c)

\* The joined name keys of the records at the positions I.
KeysOf(I) ==
  {Join([j \in 1..Len(records[i].stack) |->
           IF records[i].stack[Len(records[i].stack) + 1 - j] \in DOMAIN funcNames
           THEN funcNames[records[i].stack[Len(records[i].stack) + 1 - j]]
           ELSE <<"m","i","s","s","i","n","g","-","f","u","n","c","t","i","o","n","-">>
                  \o FormatInt(records[i].stack[Len(records[i].stack) + 1 - j])],
        Semicolon) : i \in I}

C28_TotalsConserved ==
  /\ pc = "aggregate" =>
       /\ \A c \in 1..Len(sampleNames) :
            SumMap(sampleMap, DOMAIN sampleMap, c) = SumCounter(1..(idx - 1), c)
       /\ DOMAIN sampleMap = KeysOf(1..(idx - 1))
  /\ ReturnedProfile =>
       /\ \A c \in 1..Len(sampleNames) :
            SumSamples(ret.profile.Samples, c) = SumCounter(1..Len(records), c)
       /\ Len(ret.profile.Samples) = Cardinality(KeysOf(1..Len(records)))

\* Three records, two of them with the key f;f: two Samples, and the totals
\* of the three records.
C28_Witness ==
  /\ ReturnedProfile
  /\ Len(records) = 3
  /\ Len(ret.profile.Samples) = 2
  /\ \E i \in 1..2 : ret.profile.Samples[i].Funcs = <<<<"f">>, <<"f">>>>
  /\ SumSamples(ret.profile.Samples, 1) = SumCounter(1..3, 1)
  /\ SumSamples(ret.profile.Samples, 1) > 2

(***************************************************************************)
(* C29.  The parser processes exactly the lines that end with a newline:   *)
(* the bytes after the last newline change nothing, whatever they are, so  *)
(* a dump whose Locations marker is its last line and has no newline is    *)
(* reported as ended before locations.                                     *)
(***************************************************************************)
\* parse meets the end of the input.
EndStep == pc = "parse" /\ pc' # "parse"

C29_UnterminatedTailIgnored ==
  [][/\ EndStep =>
          /\ state' = state
          /\ sampleNames' = sampleNames
          /\ records' = records
          /\ funcNames' = funcNames
          /\ nRead' = nRead
          /\ err' = IF err = [kind |-> "nil"] /\ state \in {0, 1, 2}
                    THEN [kind |-> "ended before locations", state |-> state]
                    ELSE err
          /\ ret' = IF err' = [kind |-> "nil"] THEN ret
                    ELSE [profile |-> [nil |-> TRUE], err |-> err', returned |-> TRUE]
     /\ (EndStep /\ state = 2 /\ err = [kind |-> "nil"]
           /\ line' = <<"L","o","c","a","t","i","o","n","s">>) =>
          /\ pc' = "done"
          /\ ret'.err = [kind |-> "ended before locations", state |-> 2]]_vars

\* A dump with a header and a sample line whose last line is Locations
\* without a newline: the parser is still in samples and ParseRaw returned
\* the error.
C29_Witness ==
  /\ pc = "done"
  /\ state = 2
  /\ Len(records) = 1
  /\ line = <<"L","o","c","a","t","i","o","n","s">>
  /\ ret = [profile |-> [nil |-> TRUE],
            err |-> [kind |-> "ended before locations", state |-> 2],
            returned |-> TRUE]

(***************************************************************************)
(* C30.  GraphAsText on a graph with edges but without root candidate (a   *)
(* pure cycle N1 -> N2 -> N1) starts no traversal: it returns the empty    *)
(* text with a nil error, not the "no activity" error, and logs no cycle   *)
(* warning.                                                                *)
(***************************************************************************)
NoRootCandidate == Len(graph.edges) > 0 /\ RootNames = {}

C30_NoRootNoTraversal ==
  NoRootCandidate =>
    /\ frames = <<>>
    /\ DOMAIN colorMap = {}
    /\ buffer = <<>>
    /\ warnings = <<>>
    /\ gpc \in {"start", "roots", "done"}
    /\ gpc # "start" => rootIdx = 1
    /\ gpc = "done" =>
         gret = [text |-> <<>>, err |-> [kind |-> "nil"], returned |-> TRUE]

\* The cycle N1 -> N2 -> N1 after the return.
C30_Witness ==
  /\ GraphReturned
  /\ Len(graph.edges) = 2
  /\ graph.edges[1].Src = <<"N", "1">> /\ graph.edges[1].Dst = <<"N", "2">>
  /\ graph.edges[2].Src = <<"N", "2">> /\ graph.edges[2].Dst = <<"N", "1">>
  /\ \A i \in 1..Len(graph.nodes) : graph.nodes[i].Name[1] = "N"
  /\ gret = [text |-> <<>>, err |-> [kind |-> "nil"], returned |-> TRUE]
  /\ warnings = <<>>

====
